---- MODULE Spec2Model ----
(***************************************************************************)
(* Galileo Decile Tracker (src/Newtest3/app.py): the filename classifier,  *)
(* the schema normalizer, the record enricher, the filter functions and    *)
(* the session state changed by the sync and clear handlers.               *)
(*                                                                         *)
(* Text is modelled character by character: a Python str is a sequence of  *)
(* one-character strings, so that lower(), strip(), substring tests and    *)
(* the regular expressions are computed the way the code computes them.    *)
(***************************************************************************)
EXTENDS Integers, Sequences, FiniteSets, TLC

VARIABLES
    filename,         \* the argument of parse_file_metadata
    metadata,         \* its result: [date, region]
    cpc,              \* "start" before the call, "done" after it
    synced_files,     \* st.session_state.synced_files
    stock_data,       \* st.session_state.stock_data
    last_sync,        \* st.session_state.last_sync
    drive_connected,  \* st.session_state.drive_connected
    clock,            \* hours elapsed since the session began: datetime.now()
    pc,               \* "idle" between handlers, "loop" inside the sync loop
    files,            \* the sync handler's listing
    idx,              \* the position in files of the file the loop is at
    processed_files,  \* the sync handler's processed_files
    all_stock_data,   \* the sync handler's all_stock_data
    message,          \* what the last handler reported to the user
    fdf,              \* the dataset a chain of filters starts from
    fargs,            \* the choices the filters are called with
    fapplied,         \* the filters of the chain applied so far
    fcur,             \* what the chain has produced: a frame or an exception
    eargs,            \* the arguments of a call of the normalizer or enricher
    etable,           \* the caller's table object, as it is now
    eout,             \* what the call produced: a frame or an exception
    epc               \* "idle", "start", "once", "twice" or "processed"

cvars == <<filename, metadata, cpc>>

session == <<synced_files, stock_data, last_sync>>

locals == <<files, idx, processed_files, all_stock_data>>

svars == <<synced_files, stock_data, last_sync, drive_connected, clock, pc,
           files, idx, processed_files, all_stock_data, message>>

fvars == <<fdf, fargs, fapplied, fcur>>

evars == <<eargs, etable, eout, epc>>

vars == <<filename, metadata, cpc, synced_files, stock_data, last_sync,
          drive_connected, clock, pc, files, idx, processed_files,
          all_stock_data, message, fdf, fargs, fapplied, fcur,
          eargs, etable, eout, epc>>

(***************************************************************************)
(* Characters and strings                                                  *)
(***************************************************************************)
UpperChars == <<"A","B","C","D","E","F","G","H","I","J","K","L","M",
                "N","O","P","Q","R","S","T","U","V","W","X","Y","Z">>

LowerChars == <<"a","b","c","d","e","f","g","h","i","j","k","l","m",
                "n","o","p","q","r","s","t","u","v","w","x","y","z">>

DigitChars == <<"0","1","2","3","4","5","6","7","8","9">>

Range(f) == {f[i] : i \in DOMAIN f}

UpperSet == Range(UpperChars)

LetterSet == Range(UpperChars) \cup Range(LowerChars)

DigitSet == Range(DigitChars)

\* \s of the re module, restricted to the whitespace the model's names use
IsSpace(c) == c \in {" ", "\t"}

\* str.lower() on each upper-case letter
LowerMap ==
    [c \in UpperSet |-> LowerChars[CHOOSE i \in DOMAIN UpperChars : UpperChars[i] = c]]

\* str.lower() on one character
LowerChar(c) == IF c \in UpperSet THEN LowerMap[c] ELSE c

\* str.lower()
Lower(s) == [i \in DOMAIN s |-> LowerChar(s[i])]

DigitMap == [c \in DigitSet |-> (CHOOSE i \in DOMAIN DigitChars : DigitChars[i] = c) - 1]

\* int() of a run of decimal digits
RECURSIVE ToInt(_)
ToInt(ds) ==
    IF ds = <<>> THEN 0
    ELSE 10 * ToInt(SubSeq(ds, 1, Len(ds) - 1)) + DigitMap[ds[Len(ds)]]

\* s[i : i + len(sub)] == sub  (1-based i)
StartsAt(s, i, sub) ==
    /\ i + Len(sub) - 1 <= Len(s)
    /\ \A k \in 1..Len(sub) : s[i + k - 1] = sub[k]

\* sub in s
Contains(s, sub) == \E i \in 1..(Len(s) - Len(sub) + 1) : StartsAt(s, i, sub)

\* whether position p of s (1-based) holds a \w character; outside s: no
IsWordAt(s, p) == p \in 1..Len(s) /\ s[p] \in LetterSet \cup DigitSet \cup {"_"}

\* \b between positions p-1 and p
Boundary(s, p) == IsWordAt(s, p - 1) # IsWordAt(s, p)

\* re.search(r'\b' + re.escape(kw) + r'\b', s) is not None
WordSearch(kw, s) ==
    \E i \in 1..(Len(s) - Len(kw) + 1) :
        /\ StartsAt(s, i, kw)
        /\ Boundary(s, i)
        /\ Boundary(s, i + Len(kw))

Min(S) == CHOOSE x \in S : \A y \in S : x <= y

(***************************************************************************)
(* Configuration tables                                                    *)
(***************************************************************************)
REGION_MAPPINGS ==
  << [region |-> "US", keywords |->
        << <<"s","&","p","5","0","0">>,
           <<"s","&","p"," ","5","0","0">>,
           <<"s","p","5","0","0">>,
           <<"u","s">>,
           <<"u","s","a">>,
           <<"n","a","s","d","a","q">>,
           <<"r","u","s","s","e","l","l">>,
           <<"d","o","w">>,
           <<"a","m","e","r","i","c","a","n">> >>],
     [region |-> "Europe", keywords |->
        << <<"e","u","r","o","p","e">>,
           <<"e","u","r","o","p","e","a","n">>,
           <<"e","u">>,
           <<"s","t","o","x","x">>,
           <<"e","u","r","o"," ","s","t","o","x","x">>,
           <<"f","t","s","e"," ","d","e","v","e","l","o","p","e","d"," ","e","u","r","o","p","e">>,
           <<"m","s","c","i"," ","e","u","r","o","p","e">> >>],
     [region |-> "UK", keywords |->
        << <<"u","k">>,
           <<"u","n","i","t","e","d"," ","k","i","n","g","d","o","m">>,
           <<"f","t","s","e">>,
           <<"f","t","s","e","1","0","0">>,
           <<"f","t","s","e"," ","1","0","0">>,
           <<"f","t","s","e","2","5","0">>,
           <<"b","r","i","t","i","s","h">>,
           <<"l","o","n","d","o","n">> >>],
     [region |-> "APAC Ex Japan", keywords |->
        << <<"a","p","a","c"," ","e","x"," ","j","p","y">>,
           <<"a","p","a","c"," ","e","x"," ","j","a","p","a","n">>,
           <<"a","p","a","c">>,
           <<"a","s","i","a"," ","p","a","c","i","f","i","c">>,
           <<"a","s","i","a">>,
           <<"a","s","i","a","n">>,
           <<"p","a","c","i","f","i","c">>,
           <<"e","m","e","r","g","i","n","g"," ","a","s","i","a">>,
           <<"a","s","e","a","n">> >>],
     [region |-> "Japan", keywords |->
        << <<"j","a","p","a","n">>,
           <<"j","a","p","a","n","e","s","e">>,
           <<"n","i","k","k","e","i">>,
           <<"t","o","p","i","x">>,
           <<"t","o","k","y","o">> >>],
     [region |-> "China", keywords |->
        << <<"c","h","i","n","a">>,
           <<"c","h","i","n","e","s","e">>,
           <<"s","h","a","n","g","h","a","i">>,
           <<"s","h","e","n","z","h","e","n">>,
           <<"h","a","n","g"," ","s","e","n","g">>,
           <<"h","s","i">>,
           <<"c","s","i">>,
           <<"a","-","s","h","a","r","e","s">>,
           <<"h","-","s","h","a","r","e","s">> >>],
     [region |-> "Global", keywords |->
        << <<"g","l","o","b","a","l">>,
           <<"w","o","r","l","d">>,
           <<"m","s","c","i"," ","w","o","r","l","d">>,
           <<"a","c","w","i">>,
           <<"a","l","l"," ","c","o","u","n","t","r","y">>,
           <<"w","o","r","l","d","w","i","d","e">> >>],
     [region |-> "Global Ex US", keywords |->
        << <<"g","l","o","b","a","l"," ","e","x"," ","u","s">>,
           <<"g","l","o","b","a","l"," ","e","x","-","u","s">>,
           <<"w","o","r","l","d"," ","e","x"," ","u","s">>,
           <<"i","n","t","e","r","n","a","t","i","o","n","a","l">>,
           <<"e","a","f","e">>,
           <<"e","x","-","u","s">>,
           <<"n","o","n","-","u","s">> >>] >>

MONTH_MAPPINGS ==
  << [name |-> <<"j","a","n">>, month |-> 1],
     [name |-> <<"j","a","n","u","a","r","y">>, month |-> 1],
     [name |-> <<"f","e","b">>, month |-> 2],
     [name |-> <<"f","e","b","r","u","a","r","y">>, month |-> 2],
     [name |-> <<"m","a","r">>, month |-> 3],
     [name |-> <<"m","a","r","c","h">>, month |-> 3],
     [name |-> <<"a","p","r">>, month |-> 4],
     [name |-> <<"a","p","r","i","l">>, month |-> 4],
     [name |-> <<"m","a","y">>, month |-> 5],
     [name |-> <<"j","u","n">>, month |-> 6],
     [name |-> <<"j","u","n","e">>, month |-> 6],
     [name |-> <<"j","u","l">>, month |-> 7],
     [name |-> <<"j","u","l","y">>, month |-> 7],
     [name |-> <<"a","u","g">>, month |-> 8],
     [name |-> <<"a","u","g","u","s","t">>, month |-> 8],
     [name |-> <<"s","e","p">>, month |-> 9],
     [name |-> <<"s","e","p","t">>, month |-> 9],
     [name |-> <<"s","e","p","t","e","m","b","e","r">>, month |-> 9],
     [name |-> <<"o","c","t">>, month |-> 10],
     [name |-> <<"o","c","t","o","b","e","r">>, month |-> 10],
     [name |-> <<"n","o","v">>, month |-> 11],
     [name |-> <<"n","o","v","e","m","b","e","r">>, month |-> 11],
     [name |-> <<"d","e","c">>, month |-> 12],
     [name |-> <<"d","e","c","e","m","b","e","r">>, month |-> 12] >>

RegionTags == {"US", "Europe", "UK", "APAC Ex Japan", "Japan", "China",
               "Global", "Global Ex US", "Unclassified"}

(***************************************************************************)
(* Filename classifier                                                     *)
(***************************************************************************)
\* the phrases of the three tests that come before the table
GlobalExUsPhrases ==
    {<<"g","l","o","b","a","l"," ","e","x"," ","u","s">>,
     <<"g","l","o","b","a","l"," ","e","x","-","u","s">>}

ApacExJapanPhrases ==
    {<<"a","p","a","c"," ","e","x"," ","j","p","y">>,
     <<"a","p","a","c"," ","e","x"," ","j","a","p","a","n">>}

SP500Phrases ==
    {<<"s","&","p","5","0","0">>, <<"s","&","p"," ","5","0","0">>,
     <<"s","p","5","0","0">>}

\* "p1 in s or p2 in s ..."
ContainsAny(s, phrases) == \E x \in phrases : Contains(s, x)

\* the regions of the table, by position, one of whose keywords stands in
\* the name between word boundaries
RegionHits(filename_lower) ==
    {r \in DOMAIN REGION_MAPPINGS :
        \E k \in DOMAIN REGION_MAPPINGS[r].keywords :
            WordSearch(REGION_MAPPINGS[r].keywords[k], filename_lower)}

\* FirstRegion without the final return "Unclassified": the function falls
\* off its end and yields Python's None
FirstRegion_NoDefault(hits) ==
    IF hits = {} THEN "None" ELSE REGION_MAPPINGS[Min(hits)].region

\* the region returned from inside the loops, "Unclassified" after them
FirstRegion(hits) ==
    IF hits = {} THEN "Unclassified" ELSE REGION_MAPPINGS[Min(hits)].region

\* RegionOfLower with the general table consulted before the compound
\* phrases
RegionOfLower_TableFirst(filename_lower) ==
    IF RegionHits(filename_lower) # {}
    THEN FirstRegion(RegionHits(filename_lower))
    ELSE IF ContainsAny(filename_lower, GlobalExUsPhrases) THEN "Global Ex US"
    ELSE IF ContainsAny(filename_lower, ApacExJapanPhrases) THEN "APAC Ex Japan"
    ELSE "Unclassified"

\* the body of extract_region_from_filename after "filename_lower =": the
\* three phrase tests, then the first region of the table, in table order,
\* one of whose keywords matches
RegionOfLower(filename_lower) ==
    IF ContainsAny(filename_lower, GlobalExUsPhrases) THEN "Global Ex US"
    ELSE IF ContainsAny(filename_lower, ApacExJapanPhrases) THEN "APAC Ex Japan"
    ELSE IF ContainsAny(filename_lower, SP500Phrases) THEN "US"
    ELSE FirstRegion(RegionHits(filename_lower))

extract_region_from_filename(fn) == RegionOfLower(Lower(fn))

\* a datetime at midnight; None is the record of zeros (datetime has no year 0)
Date(y, m, d) == [y |-> y, m |-> m, d |-> d, h |-> 0]

None == Date(0, 0, 0)

DaysInMonth(y, m) ==
    IF m = 2 THEN (IF (y % 4 = 0 /\ y % 100 # 0) \/ y % 400 = 0 THEN 29 ELSE 28)
    ELSE IF m \in {4, 6, 9, 11} THEN 30 ELSE 31

\* datetime(y, m, d) does not raise ValueError
ValidDate(y, m, d) ==
    /\ y \in 1..9999
    /\ m \in 1..12
    /\ d \in 1..DaysInMonth(y, m)

AllDigits(s, i, n) == i >= 1 /\ i + n - 1 <= Len(s) /\ \A k \in i..(i + n - 1) : s[k] \in DigitSet

\* the end (first position past it) of the longest run of letters from i
RECURSIVE LetterRunEnd(_, _)
LetterRunEnd(s, i) ==
    IF i <= Len(s) /\ s[i] \in LetterSet THEN LetterRunEnd(s, i + 1) ELSE i

\* the end of the longest run of whitespace from i
RECURSIVE SpaceRunEnd(_, _)
SpaceRunEnd(s, i) ==
    IF i <= Len(s) /\ IsSpace(s[i]) THEN SpaceRunEnd(s, i + 1) ELSE i

\* \d{1,2} at position p followed by \s: the number of digits taken, two
\* when whitespace follows two digits, else one when whitespace follows
\* one digit, else 0 (no match)
DayLen(s, p) ==
    IF AllDigits(s, p, 2) /\ SpaceRunEnd(s, p + 2) > p + 2 THEN 2
    ELSE IF AllDigits(s, p, 1) /\ SpaceRunEnd(s, p + 1) > p + 1 THEN 1
    ELSE 0

\* the last step of the match: the year, given where the groups lie
Pattern1Year(s, i, aEnd, bEnd, c, eEnd) ==
    IF aEnd > i /\ bEnd > aEnd /\ c > 0 /\ AllDigits(s, eEnd, 4)
    THEN <<i, aEnd - 1, bEnd, bEnd + c - 1, eEnd, eEnd + 3>>
    ELSE <<>>

\* the day and the whitespace after it, given where the letters and the
\* whitespace after them end
Pattern1Space(s, i, aEnd, bEnd) ==
    Pattern1Year(s, i, aEnd, bEnd, DayLen(s, bEnd), SpaceRunEnd(s, bEnd + DayLen(s, bEnd)))

\* ([a-zA-Z]+)\s+(\d{1,2})\s+(\d{4}) matched at position i.  Letters,
\* whitespace and digits are disjoint classes, so each + can only match its
\* whole run (a shorter one is followed by a character of the same class,
\* which the next item refuses).  The result is <<start, end>> of the three
\* groups, <<>> when there is no match at i.
Pattern1At(s, i) ==
    Pattern1Space(s, i, LetterRunEnd(s, i), SpaceRunEnd(s, LetterRunEnd(s, i)))

\* the text of three groups
Groups(s, g) == <<SubSeq(s, g[1], g[2]), SubSeq(s, g[3], g[4]), SubSeq(s, g[5], g[6])>>

\* the leftmost of the match positions, as groups; <<>> when there is none
Leftmost1(s, starts) ==
    IF starts = {} THEN <<>> ELSE Groups(s, Pattern1At(s, Min(starts)))

\* re.search(pattern1, filename)
SearchPattern1(s) == Leftmost1(s, {i \in 1..Len(s) : Pattern1At(s, i) # <<>>})

Leftmost2(s, starts) ==
    IF starts = {} THEN <<>>
    ELSE Groups(s, <<Min(starts), Min(starts) + 3, Min(starts) + 5,
                     Min(starts) + 6, Min(starts) + 8, Min(starts) + 9>>)

Leftmost3(s, starts) ==
    IF starts = {} THEN <<>>
    ELSE Groups(s, <<Min(starts), Min(starts) + 3, Min(starts) + 4,
                     Min(starts) + 5, Min(starts) + 6, Min(starts) + 7>>)

\* re.search(r'(\d{4})-(\d{2})-(\d{2})', filename)
SearchPattern2(s) ==
    Leftmost2(s, {i \in 1..Len(s) :
                     /\ AllDigits(s, i, 4)
                     /\ i + 9 <= Len(s)
                     /\ s[i + 4] = "-"
                     /\ AllDigits(s, i + 5, 2)
                     /\ s[i + 7] = "-"
                     /\ AllDigits(s, i + 8, 2)})

\* re.search(r'(\d{4})(\d{2})(\d{2})', filename)
SearchPattern3(s) == Leftmost3(s, {i \in 1..Len(s) : AllDigits(s, i, 8)})

\* month_str in MONTH_MAPPINGS
InMonths(month_str) == \E k \in DOMAIN MONTH_MAPPINGS : MONTH_MAPPINGS[k].name = month_str

\* MONTH_MAPPINGS[month_str]
MonthOf(month_str) ==
    MONTH_MAPPINGS[CHOOSE k \in DOMAIN MONTH_MAPPINGS : MONTH_MAPPINGS[k].name = month_str].month

\* "try: return datetime(year, month, day) except ValueError: pass"
TryDate(y, m, d) == IF ValidDate(y, m, d) THEN Date(y, m, d) ELSE None

\* "if month_str in MONTH_MAPPINGS:" and its body
MonthRule(month_str, day, year) ==
    IF InMonths(month_str) THEN TryDate(year, MonthOf(month_str), day) ELSE None

\* the "Pattern 1" block without the .lower() of the month
Rule1Match_CaseSensitive(match) ==
    IF match = <<>> THEN None
    ELSE MonthRule(match[1], ToInt(match[2]), ToInt(match[3]))

\* the "Pattern 1" block, given the match
Rule1Match(match) ==
    IF match = <<>> THEN None
    ELSE MonthRule(Lower(match[1]), ToInt(match[2]), ToInt(match[3]))

\* the "Pattern 1" block: the date it returns, None when it falls through
Rule1(fn) == Rule1Match(SearchPattern1(fn))

\* the "Pattern 2" and "Pattern 3" blocks, given the match
NumericRule(match) ==
    IF match = <<>> THEN None
    ELSE TryDate(ToInt(match[1]), ToInt(match[2]), ToInt(match[3]))

Rule2(fn) == NumericRule(SearchPattern2(fn))

Rule3(fn) == NumericRule(SearchPattern3(fn))

\* the order of the three blocks: each returns its date or falls through
FirstDate(r1, r2, r3) ==
    IF r1 # None THEN r1
    ELSE IF r2 # None THEN r2
    ELSE IF r3 # None THEN r3
    ELSE None

\* extract_date_from_filename giving up when the first pattern matches a
\* calendar-invalid date, instead of trying the next pattern
extract_date_NoFallThrough(fn) ==
    IF SearchPattern1(fn) # <<>> THEN Rule1(fn)
    ELSE FirstDate(None, Rule2(fn), Rule3(fn))

extract_date_from_filename(fn) == FirstDate(Rule1(fn), Rule2(fn), Rule3(fn))

parse_file_metadata(fn) ==
    [date |-> extract_date_from_filename(fn),
     region |-> extract_region_from_filename(fn)]

(***************************************************************************)
(* Tables (pandas DataFrames)                                              *)
(*                                                                         *)
(* A frame has its column labels in order, its row labels (the index) in   *)
(* order, and one sequence of cells per row.  A column label is a Python   *)
(* str or, for a spreadsheet whose header cell holds a number, an int.     *)
(* A cell is a number, a str, NaN (a missing value) or a datetime.         *)
(***************************************************************************)
Str(s) == [str |-> TRUE, v |-> s]

IntLabel(digits) == [str |-> FALSE, v |-> digits]

Num(n) == [t |-> "num", n |-> n, s |-> <<>>]

Text(s) == [t |-> "str", n |-> 0, s |-> s]

NaN == [t |-> "nan", n |-> 0, s |-> <<>>]

\* a datetime cell: n orders datetimes as yyyymmddhh
Dt(d) == [t |-> "dt", n |-> ((d.y * 100 + d.m) * 100 + d.d) * 100 + d.h, s |-> <<>>]

Frame(columns, index, data) ==
    [none |-> FALSE, columns |-> columns, index |-> index, data |-> data]

\* Python's None where a DataFrame is expected
NoneDF == [none |-> TRUE, columns |-> <<>>, index |-> <<>>, data |-> <<>>]

\* pd.DataFrame()
EmptyDataFrame == Frame(<<>>, <<>>, <<>>)

\* df.empty
IsEmpty(df) == Len(df.columns) = 0 \/ Len(df.index) = 0

\* name in df.columns
HasColumn(df, name) == \E j \in DOMAIN df.columns : df.columns[j] = name

\* the position of column name (the first one carrying the label)
ColumnPos(df, name) == Min({j \in DOMAIN df.columns : df.columns[j] = name})

\* df[name] for row r (1-based position)
Cell(df, r, name) == df.data[r][ColumnPos(df, name)]

\* df[name] = values: overwrites the column when the label exists, appends
\* it as the last column otherwise; values[r] is the cell of row position r
SetColumn(df, name, values) ==
    IF HasColumn(df, name)
    THEN [df EXCEPT !.data = [r \in DOMAIN df.data |->
                                [j \in DOMAIN df.columns |->
                                    IF df.columns[j] = name THEN values[r]
                                    ELSE df.data[r][j]]]]
    ELSE [df EXCEPT !.columns = Append(df.columns, name),
                    !.data = [r \in DOMAIN df.data |-> Append(df.data[r], values[r])]]

Ticker == Str(<<"T","i","c","k","e","r">>)

CompanyName == Str(<<"C","o","m","p","a","n","y"," ","N","a","m","e">>)

Sector == Str(<<"S","e","c","t","o","r">>)

CurrentDecile == Str(<<"C","u","r","r","e","n","t"," ","D","e","c","i","l","e">>)

PreviousDecile == Str(<<"P","r","e","v","i","o","u","s"," ","D","e","c","i","l","e">>)

DecileChange == Str(<<"D","e","c","i","l","e"," ","C","h","a","n","g","e">>)

RegionCol == Str(<<"R","e","g","i","o","n">>)

FileDate == Str(<<"F","i","l","e"," ","D","a","t","e">>)

\* a region tag or filter choice as the str it is
RegionText(tag) ==
    IF tag = "US" THEN <<"U","S">>
    ELSE IF tag = "Europe" THEN <<"E","u","r","o","p","e">>
    ELSE IF tag = "UK" THEN <<"U","K">>
    ELSE IF tag = "APAC Ex Japan" THEN <<"A","P","A","C"," ","E","x"," ","J","a","p","a","n">>
    ELSE IF tag = "Japan" THEN <<"J","a","p","a","n">>
    ELSE IF tag = "China" THEN <<"C","h","i","n","a">>
    ELSE IF tag = "Global" THEN <<"G","l","o","b","a","l">>
    ELSE IF tag = "Global Ex US" THEN <<"G","l","o","b","a","l"," ","E","x"," ","U","S">>
    ELSE IF tag = "Unclassified" THEN <<"U","n","c","l","a","s","s","i","f","i","e","d">>
    ELSE IF tag = "All Regions" THEN <<"A","l","l"," ","R","e","g","i","o","n","s">>
    ELSE <<>>

(***************************************************************************)
(* Schema normalizer and record enricher                                   *)
(***************************************************************************)
column_mappings ==
  << [key |-> <<"t","i","c","k","e","r">>,
      std |-> <<"T","i","c","k","e","r">>],
     [key |-> <<"s","y","m","b","o","l">>,
      std |-> <<"T","i","c","k","e","r">>],
     [key |-> <<"s","t","o","c","k">>,
      std |-> <<"T","i","c","k","e","r">>],
     [key |-> <<"s","t","o","c","k"," ","c","o","d","e">>,
      std |-> <<"T","i","c","k","e","r">>],
     [key |-> <<"c","o","d","e">>,
      std |-> <<"T","i","c","k","e","r">>],
     [key |-> <<"c","o","m","p","a","n","y">>,
      std |-> <<"C","o","m","p","a","n","y"," ","N","a","m","e">>],
     [key |-> <<"c","o","m","p","a","n","y"," ","n","a","m","e">>,
      std |-> <<"C","o","m","p","a","n","y"," ","N","a","m","e">>],
     [key |-> <<"n","a","m","e">>,
      std |-> <<"C","o","m","p","a","n","y"," ","N","a","m","e">>],
     [key |-> <<"c","o","m","p","a","n","y","_","n","a","m","e">>,
      std |-> <<"C","o","m","p","a","n","y"," ","N","a","m","e">>],
     [key |-> <<"s","e","c","t","o","r">>,
      std |-> <<"S","e","c","t","o","r">>],
     [key |-> <<"i","n","d","u","s","t","r","y">>,
      std |-> <<"S","e","c","t","o","r">>],
     [key |-> <<"g","i","c","s"," ","s","e","c","t","o","r">>,
      std |-> <<"S","e","c","t","o","r">>],
     [key |-> <<"c","u","r","r","e","n","t"," ","d","e","c","i","l","e">>,
      std |-> <<"C","u","r","r","e","n","t"," ","D","e","c","i","l","e">>],
     [key |-> <<"c","u","r","r","e","n","t","_","d","e","c","i","l","e">>,
      std |-> <<"C","u","r","r","e","n","t"," ","D","e","c","i","l","e">>],
     [key |-> <<"d","e","c","i","l","e">>,
      std |-> <<"C","u","r","r","e","n","t"," ","D","e","c","i","l","e">>],
     [key |-> <<"c","u","r","r"," ","d","e","c","i","l","e">>,
      std |-> <<"C","u","r","r","e","n","t"," ","D","e","c","i","l","e">>],
     [key |-> <<"p","r","e","v","i","o","u","s"," ","d","e","c","i","l","e">>,
      std |-> <<"P","r","e","v","i","o","u","s"," ","D","e","c","i","l","e">>],
     [key |-> <<"p","r","e","v","i","o","u","s","_","d","e","c","i","l","e">>,
      std |-> <<"P","r","e","v","i","o","u","s"," ","D","e","c","i","l","e">>],
     [key |-> <<"p","r","e","v"," ","d","e","c","i","l","e">>,
      std |-> <<"P","r","e","v","i","o","u","s"," ","D","e","c","i","l","e">>],
     [key |-> <<"p","r","i","o","r"," ","d","e","c","i","l","e">>,
      std |-> <<"P","r","e","v","i","o","u","s"," ","D","e","c","i","l","e">>],
     [key |-> <<"d","e","c","i","l","e"," ","c","h","a","n","g","e">>,
      std |-> <<"D","e","c","i","l","e"," ","C","h","a","n","g","e">>],
     [key |-> <<"d","e","c","i","l","e","_","c","h","a","n","g","e">>,
      std |-> <<"D","e","c","i","l","e"," ","C","h","a","n","g","e">>],
     [key |-> <<"c","h","a","n","g","e">>,
      std |-> <<"D","e","c","i","l","e"," ","C","h","a","n","g","e">>],
     [key |-> <<"s","c","o","r","e">>,
      std |-> <<"S","c","o","r","e">>],
     [key |-> <<"t","o","t","a","l"," ","s","c","o","r","e">>,
      std |-> <<"S","c","o","r","e">>],
     [key |-> <<"c","o","m","p","o","s","i","t","e"," ","s","c","o","r","e">>,
      std |-> <<"S","c","o","r","e">>],
     [key |-> <<"m","a","r","k","e","t"," ","c","a","p">>,
      std |-> <<"M","a","r","k","e","t"," ","C","a","p"," ","(","B","n",")">>],
     [key |-> <<"m","a","r","k","e","t","_","c","a","p">>,
      std |-> <<"M","a","r","k","e","t"," ","C","a","p"," ","(","B","n",")">>],
     [key |-> <<"m","a","r","k","e","t","c","a","p">>,
      std |-> <<"M","a","r","k","e","t"," ","C","a","p"," ","(","B","n",")">>],
     [key |-> <<"m","k","t"," ","c","a","p">>,
      std |-> <<"M","a","r","k","e","t"," ","C","a","p"," ","(","B","n",")">>] >>

\* str.strip()
RECURSIVE Strip(_)
Strip(s) ==
    IF s = <<>> THEN s
    ELSE IF IsSpace(s[1]) THEN Strip(Tail(s))
    ELSE IF IsSpace(s[Len(s)]) THEN Strip(SubSeq(s, 1, Len(s) - 1))
    ELSE s

\* col_lower in column_mappings
InMappings(col_lower) == \E k \in DOMAIN column_mappings : column_mappings[k].key = col_lower

\* column_mappings[col_lower]
MappingOf(col_lower) ==
    column_mappings[CHOOSE k \in DOMAIN column_mappings : column_mappings[k].key = col_lower].std

\* the renaming with a header that has no synonym replaced by its
\* lower-cased, stripped form
RenamedLabel_Lowered(col) ==
    IF InMappings(Strip(Lower(col.v))) THEN Str(MappingOf(Strip(Lower(col.v))))
    ELSE Str(Strip(Lower(col.v)))

\* the label one column gets from "df.rename(columns=new_columns)"
RenamedLabel(col) ==
    LET col_lower == Strip(Lower(col.v))
    IN  IF InMappings(col_lower) THEN Str(MappingOf(col_lower)) ELSE col

\* the outcome of a call: exc is "" when it returned df, and the exception's
\* name when it raised
Returned(df) == [exc |-> "", df |-> df]

Raised(exc) == [exc |-> exc, df |-> NoneDF]

\* col.lower() raises AttributeError for a label that is not a str
standardize_column_names(df) ==
    IF \E j \in DOMAIN df.columns : ~df.columns[j].str
    THEN Raised("AttributeError")
    ELSE Returned([df EXCEPT !.columns = [j \in DOMAIN df.columns |-> RenamedLabel(df.columns[j])]])

\* a - b on two cells of numeric columns; NaN when either is missing
Minus(a, b) == IF a.t = "num" /\ b.t = "num" THEN Num(a.n - b.n) ELSE NaN

\* df['Current Decile'] - df['Previous Decile'] raises TypeError when a cell
\* of either column is a str
Subtractable(df) ==
    \A r \in DOMAIN df.data :
        Cell(df, r, CurrentDecile).t # "str" /\ Cell(df, r, PreviousDecile).t # "str"

\* the derivation with the operands the other way round
WithDecileChange_Reversed(df) ==
    IF ~HasColumn(df, DecileChange) /\ HasColumn(df, CurrentDecile)
       /\ HasColumn(df, PreviousDecile)
    THEN IF Subtractable(df)
         THEN Returned(SetColumn(df, DecileChange,
                    [r \in DOMAIN df.data |->
                        Minus(Cell(df, r, PreviousDecile), Cell(df, r, CurrentDecile))]))
         ELSE Raised("TypeError")
    ELSE Returned(df)

\* "if 'Decile Change' not in df.columns and ...:" and its body
WithDecileChange(df) ==
    IF ~HasColumn(df, DecileChange) /\ HasColumn(df, CurrentDecile)
       /\ HasColumn(df, PreviousDecile)
    THEN IF Subtractable(df)
         THEN Returned(SetColumn(df, DecileChange,
                    [r \in DOMAIN df.data |->
                        Minus(Cell(df, r, CurrentDecile), Cell(df, r, PreviousDecile))]))
         ELSE Raised("TypeError")
    ELSE Returned(df)

\* df['Region'] = region, then
\* df['File Date'] = file_date if file_date else datetime.now()
WithMetadata(df, region, file_date, now) ==
    SetColumn(SetColumn(df, RegionCol, [r \in DOMAIN df.data |-> Text(RegionText(region))]),
              FileDate,
              [r \in DOMAIN df.data |-> IF file_date # None THEN Dt(file_date) ELSE Dt(now)])

\* an exception of standardize_column_names leaves the function
process_file_data(df, region, file_date, now) ==
    IF df.none \/ IsEmpty(df) THEN Returned(NoneDF)
    ELSE IF standardize_column_names(df).exc # "" THEN standardize_column_names(df)
    ELSE WithDecileChange(WithMetadata(standardize_column_names(df).df, region,
                                       file_date, now))

\* before, then the labels of more that are not among them
AddLabels(before, more) ==
    before \o SelectSeq(more, LAMBDA c : \A j \in DOMAIN before : before[j] # c)

\* the column labels of pd.concat(frames): their union, in order of first
\* appearance
RECURSIVE ConcatColumns(_)
ConcatColumns(frames) ==
    IF frames = <<>> THEN <<>>
    ELSE AddLabels(ConcatColumns(SubSeq(frames, 1, Len(frames) - 1)),
                   frames[Len(frames)].columns)

\* the rows of df laid out under the labels cols; NaN where df has no such
\* column
RowsUnder(df, cols) ==
    [r \in DOMAIN df.data |->
        [j \in DOMAIN cols |-> IF HasColumn(df, cols[j]) THEN Cell(df, r, cols[j]) ELSE NaN]]

RECURSIVE ConcatRows(_, _)
ConcatRows(frames, cols) ==
    IF frames = <<>> THEN <<>>
    ELSE ConcatRows(SubSeq(frames, 1, Len(frames) - 1), cols)
            \o RowsUnder(frames[Len(frames)], cols)

\* pd.concat(frames, ignore_index=True) for a non-empty list of frames: the
\* rows get a fresh index 0, 1, ...
Concat(frames) ==
    Frame(ConcatColumns(frames),
          [r \in DOMAIN ConcatRows(frames, ConcatColumns(frames)) |-> r - 1],
          ConcatRows(frames, ConcatColumns(frames)))

(***************************************************************************)
(* Filenames the classifier is run on: every concatenation of at most      *)
(* MaxParts parts of one vocabulary, and the documented examples            *)
(***************************************************************************)
MaxParts == 3

RegionParts ==
    { <<"G","L","O","B","A","L"," ","E","x"," ","U","S">>,
      <<"g","l","o","b","a","l"," ","e","x","-","u","s">>,
      <<"A","P","A","C"," ","E","x"," ","J","P","Y">>,
      <<"S","&","P","5","0","0">>,
      <<"J","a","p","a","n">>,
      <<"u","s">>,
      <<"x">>,
      <<" ">> }

DateParts ==
    { <<"M","a","r","c","h"," ","1","1"," ","2","0","2","5">>,
      <<"F","e","b"," ","3","0"," ","2","0","2","5">>,
      <<"J","a","n"," ","8"," ","2","0","2","6">>,
      <<"R","e","p","o","r","t"," ","1","2"," ","2","0","2","4">>,
      <<"2","0","2","5","-","0","3","-","1","1">>,
      <<"2","0","2","5","-","1","3","-","0","1">>,
      <<"2","0","2","5","0","3","1","1">>,
      <<"x">>,
      <<" ">> }

RECURSIVE Concats(_, _)
Concats(parts, n) ==
    IF n = 0 THEN {<<>>}
    ELSE LET shorter == Concats(parts, n - 1)
         IN  shorter \cup {s \o p : s \in shorter, p \in parts}

\* the "Supported File Patterns" table, with the spec's randomfile.csv
DocExamples ==
    << [name |-> <<"S","&","P","5","0","0"," ","M","a","r","c","h"," ","1","1"," ","2","0","2","5",".","x","l","s","x">>,
        region |-> "US", date |-> Date(2025, 3, 11)],
       [name |-> <<"J","a","p","a","n"," ","J","a","n"," ","0","8"," ","2","0","2","6",".","x","l","s","x">>,
        region |-> "Japan", date |-> Date(2026, 1, 8)],
       [name |-> <<"G","L","O","B","A","L"," ","E","x"," ","U","S"," ","M","a","r"," ","1","1"," ","2","0","2","5",".","x","l","s","x">>,
        region |-> "Global Ex US", date |-> Date(2025, 3, 11)],
       [name |-> <<"E","u","r","o","p","e"," ","J","a","n"," ","2","8"," ","2","0","2","5",".","x","l","s","x">>,
        region |-> "Europe", date |-> Date(2025, 1, 28)],
       [name |-> <<"A","P","A","C"," ","E","x"," ","J","P","Y"," ","D","e","c"," ","1","0"," ","2","0","2","5",".","x","l","s","x">>,
        region |-> "APAC Ex Japan", date |-> Date(2025, 12, 10)],
       [name |-> <<"r","a","n","d","o","m","f","i","l","e",".","c","s","v">>,
        region |-> "Unclassified", date |-> Date(0, 0, 0)] >>

\* the words joined by the separator
RECURSIVE JoinWords(_, _)
JoinWords(words, sep) ==
    IF Len(words) = 1 THEN words[1]
    ELSE JoinWords(SubSeq(words, 1, Len(words) - 1), sep) \o sep \o words[Len(words)]

\* names that spell a region phrase with one separator or another between
\* and around its words, each with the name that spells it with single
\* spaces
\* a keyword of the table followed by a date and an extension
KeywordName(r, k) == REGION_MAPPINGS[r].keywords[k] \o <<" ","2","0","2","5","-","0","3","-","1","1",".","x","l","s","x">>

SpellingVariants ==
    {[name |-> JoinWords(w, sep) \o <<".","c","s","v">>,
      canonical |-> JoinWords(w, <<" ">>) \o <<".","c","s","v">>] :
        w \in { <<<<"G","l","o","b","a","l">>, <<"E","x">>, <<"U","S">>>>,
               <<<<"g","l","o","b","a","l">>, <<"e","x">>, <<"u","s">>>>,
               <<<<"A","P","A","C">>, <<"E","x">>, <<"J","P","Y">>>>,
               <<<<"d","e","c","i","l","e","s">>, <<"j","a","p","a","n">>, <<"2","0","2","5">>>>,
               <<<<"J","a","p","a","n">>, <<"2","0","2","5">>>>,
               <<<<"S","&","P">>, <<"5","0","0">>>>,
               <<<<"E","u","r","o">>, <<"S","t","o","x","x">>>> },
        sep \in {<<" ">>, <<" ", " ">>, <<"_">>, <<"-">>, <<".">>}}

Filenames ==
    Concats(RegionParts, MaxParts) \cup Concats(DateParts, MaxParts)
        \cup {DocExamples[i].name : i \in DOMAIN DocExamples}
        \cup {v.name : v \in SpellingVariants}
        \cup UNION {{KeywordName(r, k) : k \in DOMAIN REGION_MAPPINGS[r].keywords} :
                        r \in DOMAIN REGION_MAPPINGS}

Pending == [date |-> None, region |-> "pending"]

\* the session state after the "SESSION STATE INITIALIZATION" block
InitSession ==
    /\ synced_files = <<>>
    /\ stock_data = EmptyDataFrame
    /\ last_sync = None
    /\ drive_connected = FALSE
    /\ clock = 0
    /\ pc = "idle"
    /\ files = <<>>
    /\ idx = 0
    /\ processed_files = <<>>
    /\ all_stock_data = <<>>
    /\ message = "none"

\* no chain of filters under way
NoFilter(df, args, applied, cur) ==
    /\ df = EmptyDataFrame
    /\ args = [region |-> "All Regions", sector |-> "All Sectors", start_date |-> None,
               end_date |-> None, criteria |-> "All Decile Movements",
               search_term |-> <<>>]
    /\ applied = {}
    /\ cur = Returned(EmptyDataFrame)

\* no call of the normalizer or enricher under way
InitNoCall ==
    /\ eargs = [df |-> EmptyDataFrame, region |-> "Unclassified", file_date |-> None]
    /\ etable = EmptyDataFrame
    /\ eout = Returned(EmptyDataFrame)
    /\ epc = "idle"

InitClassify ==
    /\ filename \in Filenames
    /\ metadata = Pending
    /\ cpc = "start"
    /\ InitSession
    /\ NoFilter(fdf, fargs, fapplied, fcur)
    /\ InitNoCall

\* one call of parse_file_metadata
ParseFileMetadata ==
    /\ cpc = "start"
    /\ metadata' = parse_file_metadata(filename)
    /\ cpc' = "done"
    /\ UNCHANGED filename
    /\ UNCHANGED svars
    /\ UNCHANGED fvars
    /\ UNCHANGED evars

SpecClassify == InitClassify /\ [][ParseFileMetadata]_vars

(***************************************************************************)
(* The Drive folder and the sync and clear handlers                        *)
(***************************************************************************)
MaxFiles == 2

MaxClock == 2

\* datetime.now(): the session runs on 2026-01-09 from 9 o'clock, the clock
\* counting the hours
Now(c) == [Date(2026, 1, 9) EXCEPT !.h = 9 + c]

\* a sector or filter choice as the str it is
SectorText(sector) ==
    IF sector = "Technology" THEN <<"T","e","c","h","n","o","l","o","g","y">>
    ELSE IF sector = "Industrials" THEN <<"I","n","d","u","s","t","r","i","a","l","s">>
    ELSE IF sector = "All Sectors" THEN <<"A","l","l"," ","S","e","c","t","o","r","s">>
    ELSE <<>>

\* what the Drive holds: per file its name, whether download_file_content
\* returns its bytes (else None), and what read_excel_file makes of them
\* (NoneDF when it cannot be read)
Drive ==
    << \* a dated snapshot with synonym headers and no change column
       [name |-> DocExamples[2].name, modifiedTime |-> "t1", fetch |-> TRUE,
        table |-> Frame(<<Str(<<"S","y","m","b","o","l">>), Str(<<"I","n","d","u","s","t","r","y">>),
                          Str(<<"D","e","c","i","l","e">>),
                          Str(<<"P","r","i","o","r"," ","D","e","c","i","l","e">>)>>,
                        <<0, 1, 2, 3>>,
                        << <<Text(<<"T","M">>), Text(SectorText("Industrials")), Num(2), Num(5)>>,
                           <<Text(<<"S","O","N","Y">>), Text(SectorText("Technology")), Num(9), Num(4)>>,
                           <<Text(<<"N","T","T">>), Text(SectorText("Technology")), Num(3), NaN>>,
                           <<Text(<<"K","D","D","I">>), Text(SectorText("Technology")), Num(2), Num(1)>> >>)],
       \* an undated, unclassifiable file that supplies its change column
       [name |-> DocExamples[6].name, modifiedTime |-> "t2", fetch |-> TRUE,
        table |-> Frame(<<Str(<<" ","T","I","C","K","E","R"," ">>), Str(<<"C","o","m","p","a","n","y"," ","N","a","m","e">>),
                          Str(<<"C","h","a","n","g","e">>)>>,
                        <<0>>,
                        << <<Text(<<"F">>), Text(<<"F","o","r","d"," ","M","o","t","o","r"," ","C","o">>), Num(3)>> >>)],
       \* a file whose download fails
       [name |-> DocExamples[1].name, modifiedTime |-> "t3", fetch |-> FALSE, table |-> NoneDF],
       \* a file that cannot be decoded
       [name |-> DocExamples[4].name, modifiedTime |-> "t4", fetch |-> TRUE, table |-> NoneDF],
       \* a sheet with a numeric header cell
       [name |-> DocExamples[5].name, modifiedTime |-> "t5", fetch |-> TRUE,
        table |-> Frame(<<Str(<<"T","i","c","k","e","r">>), IntLabel(<<"2","0","2","4">>)>>,
                        <<0>>,
                        << <<Text(<<"B","H","P">>), Num(7)>> >>)],
       \* a sheet whose decile cells are text
       [name |-> DocExamples[3].name, modifiedTime |-> "t6", fetch |-> TRUE,
        table |-> Frame(<<Str(<<"T","i","c","k","e","r">>), Str(<<"D","e","c","i","l","e">>),
                          Str(<<"P","r","i","o","r"," ","D","e","c","i","l","e">>)>>,
                        <<0>>,
                        << <<Text(<<"S","A","P">>), Text(<<"N","R">>), Text(<<"N","R">>)>> >>)],
       \* a sheet with a header row and no data rows
       [name |-> <<"J","a","p","a","n"," ","2","0","2","5","-","0","2","-","1","0",".","c","s","v">>, modifiedTime |-> "t7", fetch |-> TRUE,
        table |-> Frame(<<Str(<<"T","i","c","k","e","r">>), Str(<<"D","e","c","i","l","e">>)>>, <<>>, <<>>)],
       \* a sheet with neither a ticker nor a company column
       [name |-> <<"U","K"," ","2","0","2","5","0","1","1","5",".","c","s","v">>, modifiedTime |-> "t8", fetch |-> TRUE,
        table |-> Frame(<<Str(<<"G","I","C","S"," ","S","e","c","t","o","r">>), Str(<<"T","o","t","a","l"," ","S","c","o","r","e">>)>>,
                        <<0>>,
                        << <<Text(SectorText("Industrials")), Num(7)>> >>)] >>

\* parse_file_metadata(name) of every name the Drive holds
NameMeta == [n \in {Drive[f].name : f \in DOMAIN Drive} |-> parse_file_metadata(n)]

\* metadata = parse_file_metadata(f['name']) of every file
FileMeta == [f \in DOMAIN Drive |-> NameMeta[Drive[f].name]]

\* the listings list_drive_files can return: at most MaxFiles distinct
\* files, in any order; the empty list also stands for a listing error
RECURSIVE Listings(_)
Listings(n) ==
    IF n = 0 THEN {<<>>}
    ELSE LET shorter == Listings(n - 1)
         IN  shorter \cup {Append(l, f) : <<l, f>> \in
                  {t \in shorter \X DOMAIN Drive : \A k \in DOMAIN t[1] : t[1][k] # t[2]}}

AllListings == Listings(MaxFiles)

\* the entry the loop appends to processed_files for file f
Entry(f, now) ==
    [id |-> f, filename |-> Drive[f].name, date |-> FileMeta[f].date,
     region |-> FileMeta[f].region, modified |-> Drive[f].modifiedTime,
     synced_at |-> now]

\* "if file_content:" and "if df is not None and not df.empty:" both pass
Readable(f) == Drive[f].fetch /\ ~Drive[f].table.none /\ ~IsEmpty(Drive[f].table)

\* process_file_data(df, metadata['region'], metadata['date']) for file f
Processed(f, now) ==
    process_file_data(Drive[f].table, FileMeta[f].region, FileMeta[f].date, now)

\* download_file_content or read_excel_file returns None for file f
FetchOrDecodeFails(f) == ~Drive[f].fetch \/ Drive[f].table.none

\* the loop appends a table for file f
Parses(f, now) == Readable(f) /\ Processed(f, now).exc = ""

TableOf(f, now) == IF Parses(f, now) THEN <<Processed(f, now).df>> ELSE <<>>

\* what the loop has appended to all_stock_data after the files fs
RECURSIVE Tables(_, _)
Tables(fs, now) ==
    IF fs = <<>> THEN <<>>
    ELSE Tables(SubSeq(fs, 1, Len(fs) - 1), now) \o TableOf(fs[Len(fs)], now)

\* what the loop has appended to processed_files after the files fs
EntriesOf(fs, now) == [k \in DOMAIN fs |-> Entry(fs[k], now)]

\* SyncClick emptying the session when the listing is empty
SyncClick_EmptiesOnNoFiles ==
    /\ pc = "idle"
    /\ clock < MaxClock
    /\ clock' = clock + 1
    /\ drive_connected' = TRUE
    /\ \E listing \in AllListings :
          IF listing = <<>>
          THEN /\ message' = "no_files"
               /\ synced_files' = <<>>
               /\ stock_data' = EmptyDataFrame
               /\ last_sync' = None
               /\ UNCHANGED <<pc, files, idx, processed_files, all_stock_data>>
          ELSE /\ pc' = "loop"
               /\ files' = listing
               /\ idx' = 1
               /\ processed_files' = <<>>
               /\ all_stock_data' = <<>>
               /\ message' = "syncing"
               /\ UNCHANGED session
    /\ UNCHANGED cvars
    /\ NoFilter(fdf', fargs', fapplied', fcur')
    /\ UNCHANGED evars

\* the "Sync Files from Drive" button with a Drive service: the listing
SyncClick ==
    /\ pc = "idle"
    /\ clock < MaxClock
    /\ clock' = clock + 1
    /\ drive_connected' = TRUE
    /\ \E listing \in AllListings :
          IF listing = <<>>
          THEN /\ message' = "no_files"
               /\ UNCHANGED <<pc, files, idx, processed_files, all_stock_data>>
          ELSE /\ pc' = "loop"
               /\ files' = listing
               /\ idx' = 1
               /\ processed_files' = <<>>
               /\ all_stock_data' = <<>>
               /\ message' = "syncing"
    /\ UNCHANGED session
    /\ UNCHANGED cvars
    /\ NoFilter(fdf', fargs', fapplied', fcur')
    /\ UNCHANGED evars

\* SyncFile leaving the loop at the first file that cannot be fetched or
\* decoded
SyncFile_BreakOnFailure ==
    /\ pc = "loop"
    /\ idx <= Len(files)
    /\ Readable(files[idx]) => Processed(files[idx], Now(clock)).exc = ""
    /\ all_stock_data' = all_stock_data \o TableOf(files[idx], Now(clock))
    /\ processed_files' =
          IF FetchOrDecodeFails(files[idx]) THEN processed_files
          ELSE Append(processed_files, Entry(files[idx], Now(clock)))
    /\ idx' = IF FetchOrDecodeFails(files[idx]) THEN Len(files) + 1 ELSE idx + 1
    /\ UNCHANGED <<pc, files, message, drive_connected, clock>>
    /\ UNCHANGED session
    /\ UNCHANGED cvars
    /\ UNCHANGED fvars
    /\ UNCHANGED evars

\* one iteration of "for i, f in enumerate(files)" that reaches its end
SyncFile ==
    /\ pc = "loop"
    /\ idx <= Len(files)
    /\ LET f == files[idx]
       IN  /\ Readable(f) => Processed(f, Now(clock)).exc = ""
           /\ all_stock_data' =
                IF Readable(f) /\ ~Processed(f, Now(clock)).df.none
                THEN Append(all_stock_data, Processed(f, Now(clock)).df)
                ELSE all_stock_data
           /\ processed_files' = Append(processed_files, Entry(f, Now(clock)))
    /\ idx' = idx + 1
    /\ UNCHANGED <<pc, files, message, drive_connected, clock>>
    /\ UNCHANGED session
    /\ UNCHANGED cvars
    /\ UNCHANGED fvars
    /\ UNCHANGED evars

\* an iteration in which process_file_data raises: the exception leaves the
\* loop and main(), and the script run ends with the error shown
SyncFileRaises ==
    /\ pc = "loop"
    /\ idx <= Len(files)
    /\ Readable(files[idx])
    /\ Processed(files[idx], Now(clock)).exc # ""
    /\ pc' = "idle"
    /\ message' = "exception"
    /\ files' = <<>>
    /\ idx' = 0
    /\ processed_files' = <<>>
    /\ all_stock_data' = <<>>
    /\ UNCHANGED <<drive_connected, clock>>
    /\ UNCHANGED session
    /\ UNCHANGED cvars
    /\ UNCHANGED fvars
    /\ UNCHANGED evars

\* FinishSync without the assignment to last_sync
FinishSync_NoTimestamp ==
    /\ pc = "loop"
    /\ idx > Len(files)
    /\ synced_files' = processed_files
    /\ last_sync' = last_sync
    /\ IF all_stock_data # <<>>
       THEN /\ stock_data' = Concat(all_stock_data)
            /\ message' = "completed"
       ELSE /\ stock_data' = stock_data
            /\ message' = "no_data"
    /\ pc' = "idle"
    /\ files' = <<>>
    /\ idx' = 0
    /\ processed_files' = <<>>
    /\ all_stock_data' = <<>>
    /\ UNCHANGED <<drive_connected, clock>>
    /\ UNCHANGED cvars
    /\ UNCHANGED fvars
    /\ UNCHANGED evars

\* FinishSync appending to the earlier entries instead of replacing them
FinishSync_Incremental ==
    /\ pc = "loop"
    /\ idx > Len(files)
    /\ synced_files' = synced_files \o processed_files
    /\ last_sync' = Now(clock)
    /\ IF all_stock_data # <<>>
       THEN /\ stock_data' = Concat(all_stock_data)
            /\ message' = "completed"
       ELSE /\ stock_data' = stock_data
            /\ message' = "no_data"
    /\ pc' = "idle"
    /\ files' = <<>>
    /\ idx' = 0
    /\ processed_files' = <<>>
    /\ all_stock_data' = <<>>
    /\ UNCHANGED <<drive_connected, clock>>
    /\ UNCHANGED cvars
    /\ UNCHANGED fvars
    /\ UNCHANGED evars

\* the statements after the loop
FinishSync ==
    /\ pc = "loop"
    /\ idx > Len(files)
    /\ synced_files' = processed_files
    /\ last_sync' = Now(clock)
    /\ IF all_stock_data # <<>>
       THEN /\ stock_data' = Concat(all_stock_data)
            /\ message' = "completed"
       ELSE /\ stock_data' = stock_data
            /\ message' = "no_data"
    /\ pc' = "idle"
    /\ files' = <<>>
    /\ idx' = 0
    /\ processed_files' = <<>>
    /\ all_stock_data' = <<>>
    /\ UNCHANGED <<drive_connected, clock>>
    /\ UNCHANGED cvars
    /\ UNCHANGED fvars
    /\ UNCHANGED evars

\* a script run without a Drive service: the sync button is disabled
NotConnected ==
    /\ pc = "idle"
    /\ drive_connected
    /\ drive_connected' = FALSE
    /\ message' = "not_connected"
    /\ UNCHANGED <<clock, pc>>
    /\ UNCHANGED locals
    /\ UNCHANGED session
    /\ UNCHANGED cvars
    /\ NoFilter(fdf', fargs', fapplied', fcur')
    /\ UNCHANGED evars

\* ClearAllSyncedData leaving synced_files as it is
ClearAllSyncedData_KeepsFiles ==
    /\ pc = "idle"
    /\ ~IsEmpty(stock_data)
    /\ synced_files' = synced_files
    /\ stock_data' = EmptyDataFrame
    /\ last_sync' = None
    /\ message' = "cleared"
    /\ UNCHANGED <<drive_connected, clock, pc>>
    /\ UNCHANGED locals
    /\ UNCHANGED cvars
    /\ NoFilter(fdf', fargs', fapplied', fcur')
    /\ UNCHANGED evars

\* the "Clear All Synced Data" button of the settings tab, which is drawn
\* only when stock_data is not empty
ClearAllSyncedData ==
    /\ pc = "idle"
    /\ ~IsEmpty(stock_data)
    /\ synced_files' = <<>>
    /\ stock_data' = EmptyDataFrame
    /\ last_sync' = None
    /\ message' = "cleared"
    /\ UNCHANGED <<drive_connected, clock, pc>>
    /\ UNCHANGED locals
    /\ UNCHANGED cvars
    /\ NoFilter(fdf', fargs', fapplied', fcur')
    /\ UNCHANGED evars

Init ==
    /\ filename = <<>>
    /\ metadata = Pending
    /\ cpc = "done"
    /\ InitSession
    /\ NoFilter(fdf, fargs, fapplied, fcur)
    /\ InitNoCall


(***************************************************************************)
(* The filter functions.  A filter returns a frame or raises; the rows of  *)
(* a frame keep their index labels through df[mask].                       *)
(***************************************************************************)
DECILE_OPTIONS ==
    <<"All Decile Movements", "Entering Top 2 Deciles", "Entering Bottom 2 Deciles",
      "Moving +3 Deciles", "Moving +5 Deciles">>

\* the rows of df at the positions P, each with its index label
RowsAt(df, P) ==
    Frame(df.columns, [k \in DOMAIN P |-> df.index[P[k]]],
          [k \in DOMAIN P |-> df.data[P[k]]])

\* df[mask] for a mask computed from df's own columns: keep holds the
\* positions where the mask is True
Select(df, keep) == RowsAt(df, SelectSeq([i \in 1..Len(df.index) |-> i], LAMBDA i : i \in keep))

filter_by_region(df, region) ==
    IF IsEmpty(df) \/ region = "All Regions" \/ ~HasColumn(df, RegionCol)
    THEN Returned(df)
    ELSE Returned(Select(df, {r \in DOMAIN df.data :
                                Cell(df, r, RegionCol) = Text(RegionText(region))}))

filter_by_sector(df, sector) ==
    IF IsEmpty(df) \/ sector = "All Sectors" \/ ~HasColumn(df, Sector)
    THEN Returned(df)
    ELSE Returned(Select(df, {r \in DOMAIN df.data :
                                Cell(df, r, Sector) = Text(SectorText(sector))}))

\* a missing File Date becomes NaT, which compares False
filter_by_date_range(df, start_date, end_date) ==
    IF IsEmpty(df) \/ ~HasColumn(df, FileDate)
    THEN Returned(df)
    ELSE Returned(Select(df, {r \in DOMAIN df.data :
                                /\ Cell(df, r, FileDate).t = "dt"
                                /\ Cell(df, r, FileDate).n >= Dt(start_date).n
                                /\ Cell(df, r, FileDate).n <= Dt(end_date).n}))

\* what df[name] compared with a number raises: KeyError without the
\* column, TypeError when a cell of it is not a number or NaN
ColumnError(df, name) ==
    IF ~HasColumn(df, name) THEN "KeyError"
    ELSE IF \E r \in DOMAIN df.data : Cell(df, r, name).t \in {"str", "dt"}
         THEN "TypeError"
         ELSE ""

\* the exception of the first of two column comparisons to raise
ColumnsError(df, first, second) ==
    IF ColumnError(df, first) # "" THEN ColumnError(df, first)
    ELSE ColumnError(df, second)

\* df[mask] when evaluating the mask raised exc
SelectOrRaise(df, exc, keep) == IF exc # "" THEN Raised(exc) ELSE Returned(Select(df, keep))

\* cells that are numbers; a comparison with NaN is False
IsNum(cell) == cell.t = "num"

\* EnteringTop2 looking at the current decile alone
EnteringTop2_IgnoresPrevious(df) ==
    {r \in DOMAIN df.data :
        IsNum(Cell(df, r, CurrentDecile)) /\ Cell(df, r, CurrentDecile).n <= 2}

EnteringTop2(df) ==
    {r \in DOMAIN df.data :
        /\ IsNum(Cell(df, r, CurrentDecile)) /\ Cell(df, r, CurrentDecile).n <= 2
        /\ IsNum(Cell(df, r, PreviousDecile)) /\ Cell(df, r, PreviousDecile).n > 2}

EnteringBottom2(df) ==
    {r \in DOMAIN df.data :
        /\ IsNum(Cell(df, r, CurrentDecile)) /\ Cell(df, r, CurrentDecile).n >= 9
        /\ IsNum(Cell(df, r, PreviousDecile)) /\ Cell(df, r, PreviousDecile).n < 9}

\* MovingAtLeast taking the rows whose change is exactly k
MovingAtLeast_Exactly(df, k) ==
    {r \in DOMAIN df.data :
        IsNum(Cell(df, r, DecileChange)) /\ Cell(df, r, DecileChange).n = k}

MovingAtLeast(df, k) ==
    {r \in DOMAIN df.data :
        IsNum(Cell(df, r, DecileChange)) /\ Cell(df, r, DecileChange).n >= k}

filter_by_decile_criteria(df, criteria) ==
    IF IsEmpty(df) THEN Returned(df)
    ELSE IF criteria = "All Decile Movements" THEN Returned(df)
    ELSE IF criteria = "Entering Top 2 Deciles"
    THEN SelectOrRaise(df, ColumnsError(df, CurrentDecile, PreviousDecile), EnteringTop2(df))
    ELSE IF criteria = "Entering Bottom 2 Deciles"
    THEN SelectOrRaise(df, ColumnsError(df, CurrentDecile, PreviousDecile), EnteringBottom2(df))
    ELSE IF criteria = "Moving +3 Deciles"
    THEN SelectOrRaise(df, ColumnError(df, DecileChange), MovingAtLeast(df, 3))
    ELSE IF criteria = "Moving +5 Deciles"
    THEN SelectOrRaise(df, ColumnError(df, DecileChange), MovingAtLeast(df, 5))
    ELSE Returned(df)

\* str(n) for a natural number
RECURSIVE NatStr(_)
NatStr(n) ==
    IF n < 10 THEN <<DigitChars[n + 1]>>
    ELSE Append(NatStr(n \div 10), DigitChars[(n % 10) + 1])

\* astype(str) of a cell of the Ticker or Company Name column: a missing
\* value becomes the text "nan"
AsStr(cell) ==
    CASE cell.t = "str" -> cell.s
      [] cell.t = "nan" -> <<"n", "a", "n">>
      [] cell.t = "num" -> IF cell.n < 0 THEN <<"-">> \o NatStr(0 - cell.n)
                           ELSE NatStr(cell.n)

\* re.search(pat, s) is not None, for the patterns the search terms used
\* here give: literal letters and spaces, and "." that stands for any
\* character
RegexSearch(pat, s) ==
    \E i \in 1..(Len(s) - Len(pat) + 1) :
        \A k \in 1..Len(pat) : pat[k] = "." \/ s[i + k - 1] = pat[k]

\* the index labels where
\* df[name].astype(str).str.lower().str.contains(search_lower) is True:
\* str.contains takes its argument as a regular expression
Matches(df, name, search_lower) ==
    {df.index[r] : r \in {q \in DOMAIN df.data :
                            RegexSearch(search_lower, Lower(AsStr(Cell(df, q, name))))}}

\* a boolean Series is the labels of its index and those where it is True.
\* mask | series for a series over df's index that is True at hits: the two
\* are aligned on the union of their labels, and a label the left side
\* lacks gives False
Or(mask, df, hits) ==
    [index |-> mask.index \cup Range(df.index),
     true |-> {l \in mask.index : l \in mask.true \/ l \in hits}]

\* "if name in df.columns: mask = mask | ..."
OrColumn(mask, df, name, search_lower) ==
    IF HasColumn(df, name) THEN Or(mask, df, Matches(df, name, search_lower)) ELSE mask

\* the mask starts as pd.Series([False] * len(df)), which is indexed
\* 0 .. len(df) - 1 whatever the index of df
SearchMask(df, search_lower) ==
    OrColumn(OrColumn([index |-> {i - 1 : i \in 1..Len(df.index)}, true |-> {}],
                      df, Ticker, search_lower),
             df, CompanyName, search_lower)

\* df[mask] for a boolean Series: the mask is reindexed to df's index, and
\* the lookup raises when the mask lacks one of df's labels
GetItem(df, mask) ==
    IF Range(df.index) \subseteq mask.index
    THEN Returned(Select(df, {r \in DOMAIN df.data : df.index[r] \in mask.true}))
    ELSE Raised("IndexingError")

filter_by_search(df, search_term) ==
    IF IsEmpty(df) \/ search_term = <<>> THEN Returned(df)
    ELSE GetItem(df, SearchMask(df, Strip(Lower(search_term))))

\* relativedelta(months=k) taken from d: the day is clipped to the month's
\* length
MonthsBefore(d, k) ==
    [d EXCEPT !.y = (d.y * 12 + d.m - 1 - k) \div 12,
              !.m = ((d.y * 12 + d.m - 1 - k) % 12) + 1,
              !.d = Min({d.d, DaysInMonth((d.y * 12 + d.m - 1 - k) \div 12,
                                          ((d.y * 12 + d.m - 1 - k) % 12) + 1)})]

\* timedelta(days=n) taken from d
RECURSIVE DaysBefore(_, _)
DaysBefore(d, n) ==
    IF n < d.d THEN [d EXCEPT !.d = d.d - n]
    ELSE DaysBefore([MonthsBefore(d, 1) EXCEPT
                        !.d = DaysInMonth(MonthsBefore(d, 1).y, MonthsBefore(d, 1).m)],
                    n - d.d)

\* <<start_date, end_date>> of a preset
get_date_range_from_period(period, now) ==
    IF period = "3 Months" THEN <<MonthsBefore(now, 3), now>>
    ELSE IF period = "6 Months" THEN <<MonthsBefore(now, 6), now>>
    ELSE IF period = "9 Months" THEN <<MonthsBefore(now, 9), now>>
    ELSE <<MonthsBefore(now, 12), now>>

\* <<start_date, end_date>> of the sidebar: the two date inputs of "Custom"
\* left at the values they are drawn with, which are dates and carry no
\* time of day, or the preset's range
DateRange(period, now) ==
    IF period = "Custom"
    THEN <<[DaysBefore(now, 365) EXCEPT !.h = 0], [now EXCEPT !.h = 0]>>
    ELSE get_date_range_from_period(period, now)

\* a run of the script that draws the dashboard with a time period chosen
\* and the other filters at "all": filtered_data is stock_data filtered by
\* the date range
DateRangeView ==
    /\ pc = "idle"
    /\ ~IsEmpty(stock_data)
    /\ \E period \in {"3 Months", "6 Months", "9 Months", "12 Months", "Custom"} :
         /\ fargs' = [fargs EXCEPT !.start_date = DateRange(period, Now(clock))[1],
                                   !.end_date = DateRange(period, Now(clock))[2]]
         /\ fcur' = filter_by_date_range(stock_data, DateRange(period, Now(clock))[1],
                                         DateRange(period, Now(clock))[2])
    /\ fdf' = stock_data
    /\ fapplied' = {"date"}
    /\ UNCHANGED <<drive_connected, clock, pc, message>>
    /\ UNCHANGED locals
    /\ UNCHANGED session
    /\ UNCHANGED cvars
    /\ UNCHANGED evars

Next ==
    \/ SyncClick
    \/ SyncFile
    \/ SyncFileRaises
    \/ FinishSync
    \/ NotConnected
    \/ ClearAllSyncedData
    \/ DateRangeView

Spec == Init /\ [][Next]_vars

FilterNames == {"region", "sector", "date", "decile", "search"}

\* the filter called name with its own choice out of args
Apply(name, df, args) ==
    CASE name = "region" -> filter_by_region(df, args.region)
      [] name = "sector" -> filter_by_sector(df, args.sector)
      [] name = "date" -> filter_by_date_range(df, args.start_date, args.end_date)
      [] name = "decile" -> filter_by_decile_criteria(df, args.criteria)
      [] name = "search" -> filter_by_search(df, args.search_term)

\* the next call of a chain; an exception ends the chain
Then(res, name, args) == IF res.exc # "" THEN res ELSE Apply(name, res.df, args)

\* filtered = f_n(... f_1(df)) for the filters named in order
RECURSIVE Chain(_, _, _)
Chain(df, args, order) ==
    IF order = <<>> THEN Returned(df)
    ELSE Then(Chain(df, args, SubSeq(order, 1, Len(order) - 1)), order[Len(order)], args)

\* the datasets a sync can leave in stock_data
DataSets ==
    {Concat(Tables(l, Now(1))) :
        l \in {m \in AllListings :
                 /\ Tables(m, Now(1)) # <<>>
                 /\ \A k \in DOMAIN m : Readable(m[k]) => Parses(m[k], Now(1))}}

\* the choices the filters are run with
FilterChoices ==
    [region : {"All Regions", "Japan", "Unclassified"},
     sector : {"All Sectors", "Technology"},
     start_date : {Date(2025, 1, 1)},
     end_date : {Date(2026, 1, 8), Now(1)},
     criteria : Range(DECILE_OPTIONS),
     search_term : {<<>>, <<"n">>, <<" ", "F", "o", "r", "d", " ">>, <<".">>}]

InitFilter ==
    /\ filename = <<>>
    /\ metadata = Pending
    /\ cpc = "done"
    /\ InitSession
    /\ fdf \in DataSets
    /\ fargs \in FilterChoices
    /\ fapplied = {}
    /\ fcur = Returned(fdf)
    /\ InitNoCall

FilterByRegion ==
    /\ "region" \notin fapplied
    /\ fcur.exc = ""
    /\ fcur' = filter_by_region(fcur.df, fargs.region)
    /\ fapplied' = fapplied \cup {"region"}
    /\ UNCHANGED <<fdf, fargs>>
    /\ UNCHANGED cvars
    /\ UNCHANGED svars
    /\ UNCHANGED evars

FilterBySector ==
    /\ "sector" \notin fapplied
    /\ fcur.exc = ""
    /\ fcur' = filter_by_sector(fcur.df, fargs.sector)
    /\ fapplied' = fapplied \cup {"sector"}
    /\ UNCHANGED <<fdf, fargs>>
    /\ UNCHANGED cvars
    /\ UNCHANGED svars
    /\ UNCHANGED evars

FilterByDateRange ==
    /\ "date" \notin fapplied
    /\ fcur.exc = ""
    /\ fcur' = filter_by_date_range(fcur.df, fargs.start_date, fargs.end_date)
    /\ fapplied' = fapplied \cup {"date"}
    /\ UNCHANGED <<fdf, fargs>>
    /\ UNCHANGED cvars
    /\ UNCHANGED svars
    /\ UNCHANGED evars

FilterByDecileCriteria ==
    /\ "decile" \notin fapplied
    /\ fcur.exc = ""
    /\ fcur' = filter_by_decile_criteria(fcur.df, fargs.criteria)
    /\ fapplied' = fapplied \cup {"decile"}
    /\ UNCHANGED <<fdf, fargs>>
    /\ UNCHANGED cvars
    /\ UNCHANGED svars
    /\ UNCHANGED evars

FilterBySearch ==
    /\ "search" \notin fapplied
    /\ fcur.exc = ""
    /\ fcur' = filter_by_search(fcur.df, fargs.search_term)
    /\ fapplied' = fapplied \cup {"search"}
    /\ UNCHANGED <<fdf, fargs>>
    /\ UNCHANGED cvars
    /\ UNCHANGED svars
    /\ UNCHANGED evars

NextFilter ==
    \/ FilterByRegion
    \/ FilterBySector
    \/ FilterByDateRange
    \/ FilterByDecileCriteria
    \/ FilterBySearch

SpecFilter == InitFilter /\ [][NextFilter]_vars

(***************************************************************************)
(* Calls of the schema normalizer and of the record enricher               *)
(***************************************************************************)
MaxCols == 3

\* header cells a sheet may carry, each with the cells of its two rows:
\* synonyms in several spellings, canonical names, headers without a
\* synonym, a number, and a previous-decile column holding text
RawHeaders ==
  { [label |-> Str(<<"S","y","m","b","o","l">>),
      cells |-> <<Text(<<"T","M">>), Text(<<"S","O","N","Y">>)>>],
    [label |-> Str(<<" ","T","I","C","K","E","R"," ">>),
      cells |-> <<Text(<<"F">>), Text(<<"G","M">>)>>],
    [label |-> Str(<<"T","i","c","k","e","r">>),
      cells |-> <<Text(<<"B","P">>), NaN>>],
    [label |-> Str(<<"D","e","c","i","l","e">>),
      cells |-> <<Num(2), Num(9)>>],
    [label |-> Str(<<"P","r","i","o","r"," ","D","e","c","i","l","e">>),
      cells |-> <<Num(5), NaN>>],
    [label |-> Str(<<"P","r","e","v"," ","D","e","c","i","l","e">>),
      cells |-> <<Text(<<"N","R">>), Num(4)>>],
    [label |-> Str(<<"C","h","a","n","g","e">>),
      cells |-> <<Num(7), Num(7)>>],
    [label |-> Str(<<"D","e","c","i","l","e"," ","C","h","a","n","g","e">>),
      cells |-> <<Num(1), NaN>>],
    [label |-> Str(<<"I","S","I","N">>),
      cells |-> <<Text(<<"J","P","3","6">>), Text(<<"U","S","3","4">>)>>],
    [label |-> Str(<<" ","N","o","t","e","s">>),
      cells |-> <<Text(<<"o","k">>), NaN>>],
    [label |-> IntLabel(<<"2","0","2","4">>),
      cells |-> <<Num(3), Num(4)>>] }

\* the sheet with the ten canonical headers
CanonicalHeaders ==
  << [label |-> Str(<<"T","i","c","k","e","r">>),
      cells |-> <<Text(<<"T","M">>), Text(<<"S","O","N","Y">>)>>],
     [label |-> Str(<<"C","o","m","p","a","n","y"," ","N","a","m","e">>),
      cells |-> <<Text(<<"T","o","y","o","t","a">>), NaN>>],
     [label |-> Str(<<"S","e","c","t","o","r">>),
      cells |-> <<Text(<<"I","n","d","u","s","t","r","i","a","l","s">>), Text(<<"T","e","c","h","n","o","l","o","g","y">>)>>],
     [label |-> Str(<<"C","u","r","r","e","n","t"," ","D","e","c","i","l","e">>),
      cells |-> <<Num(2), Num(9)>>],
     [label |-> Str(<<"P","r","e","v","i","o","u","s"," ","D","e","c","i","l","e">>),
      cells |-> <<Num(5), Num(4)>>],
     [label |-> Str(<<"D","e","c","i","l","e"," ","C","h","a","n","g","e">>),
      cells |-> <<Num(7), Num(7)>>],
     [label |-> Str(<<"S","c","o","r","e">>),
      cells |-> <<Num(8), Num(3)>>],
     [label |-> Str(<<"M","a","r","k","e","t"," ","C","a","p"," ","(","B","n",")">>),
      cells |-> <<Num(250), Num(110)>>],
     [label |-> Str(<<"R","e","g","i","o","n">>),
      cells |-> <<Text(<<"J","a","p","a","n">>), Text(<<"J","a","p","a","n">>)>>],
     [label |-> Str(<<"F","i","l","e"," ","D","a","t","e">>),
      cells |-> <<Dt(Date(2025, 3, 11)), Dt(Date(2025, 3, 11))>>] >>

\* header rows of at most n cells, no two of them the same: pandas numbers
\* a header that repeats ("Symbol", "Symbol.1")
RECURSIVE HeaderRows(_)
HeaderRows(n) ==
    IF n = 0 THEN {<<>>}
    ELSE HeaderRows(n - 1) \cup
         {Append(t[1], t[2]) :
            t \in {u \in HeaderRows(n - 1) \X RawHeaders :
                     /\ Len(u[1]) = n - 1
                     /\ \A k \in DOMAIN u[1] : u[1][k].label # u[2].label}}

\* the table read from a sheet with the header row hs and two data rows
TableOfHeaders(hs) ==
    Frame([j \in DOMAIN hs |-> hs[j].label], <<0, 1>>,
          [r \in 1..2 |-> [j \in DOMAIN hs |-> hs[j].cells[r]]])

InitEnrich ==
    /\ filename = <<>>
    /\ metadata = Pending
    /\ cpc = "done"
    /\ InitSession
    /\ NoFilter(fdf, fargs, fapplied, fcur)
    /\ eargs \in [df : {TableOfHeaders(hs) :
                            hs \in (HeaderRows(MaxCols) \ {<<>>}) \cup {CanonicalHeaders}},
                  region : {"Japan", "Unclassified"},
                  file_date : {None, Date(2025, 3, 11)}]
    /\ etable = eargs.df
    /\ eout = Returned(EmptyDataFrame)
    /\ epc = "start"

\* the caller's table after process_file_data(df, region, file_date).
\* When some header has a synonym, new_columns is not empty and df.rename
\* makes a new table; otherwise standardize_column_names returns its
\* argument and process_file_data assigns to the very table it was given:
\* the caller's table has the columns set by the time the function returns
\* or raises
CallerTableAfter(df, region, file_date, now) ==
    IF \/ df.none
       \/ IsEmpty(df)
       \/ standardize_column_names(df).exc # ""
       \/ \E j \in DOMAIN df.columns : InMappings(Strip(Lower(df.columns[j].v)))
    THEN df
    ELSE IF WithDecileChange(WithMetadata(df, region, file_date, now)).exc = ""
    THEN WithDecileChange(WithMetadata(df, region, file_date, now)).df
    ELSE WithMetadata(df, region, file_date, now)

\* a call of standardize_column_names on the table
StandardizeColumnNames ==
    /\ epc = "start"
    /\ eout' = standardize_column_names(etable)
    /\ epc' = "once"
    /\ UNCHANGED <<eargs, etable>>
    /\ UNCHANGED cvars
    /\ UNCHANGED svars
    /\ UNCHANGED fvars

\* a second call, on what the first returned
StandardizeAgain ==
    /\ epc = "once"
    /\ eout.exc = ""
    /\ eout' = standardize_column_names(eout.df)
    /\ epc' = "twice"
    /\ UNCHANGED <<eargs, etable>>
    /\ UNCHANGED cvars
    /\ UNCHANGED svars
    /\ UNCHANGED fvars

\* a call of process_file_data on the table.  The calls are made on the
\* sheets that standardize_column_names refuses or whose columns it leaves
\* with different names: what the assignments of process_file_data do to a
\* table with a repeated column name is not modelled
ProcessFileData ==
    /\ epc = "start"
    /\ IF standardize_column_names(etable).exc # "" THEN TRUE
       ELSE \A i, j \in DOMAIN etable.columns :
               i # j => standardize_column_names(etable).df.columns[i]
                           # standardize_column_names(etable).df.columns[j]
    /\ eout' = process_file_data(etable, eargs.region, eargs.file_date, Now(clock))
    /\ etable' = CallerTableAfter(etable, eargs.region, eargs.file_date, Now(clock))
    /\ epc' = "processed"
    /\ UNCHANGED eargs
    /\ UNCHANGED cvars
    /\ UNCHANGED svars
    /\ UNCHANGED fvars

NextEnrich ==
    \/ StandardizeColumnNames
    \/ StandardizeAgain
    \/ ProcessFileData

SpecEnrich == InitEnrich /\ [][NextEnrich]_vars

(***************************************************************************)
(* Properties of the filename classifier                                   *)
(***************************************************************************)
\* phrase occurs in s at position i when letter case is ignored
OccursAt(s, i, phrase) ==
    /\ i + Len(phrase) - 1 <= Len(s)
    /\ \A k \in 1..Len(phrase) : LowerChar(s[i + k - 1]) = phrase[k]

Occurs(s, phrase) == \E i \in 1..Len(s) : OccursAt(s, i, phrase)

HasGlobalExUs(s) == \E x \in GlobalExUsPhrases : Occurs(s, x)

HasApacExJapan(s) == \E x \in ApacExJapanPhrases : Occurs(s, x)

HasSP500(s) == \E x \in SP500Phrases : Occurs(s, x)

\* some keyword of the general table stands in s between word boundaries
HasTableKeyword(s) ==
    \E r \in DOMAIN REGION_MAPPINGS : \E k \in DOMAIN REGION_MAPPINGS[r].keywords :
        WordSearch(REGION_MAPPINGS[r].keywords[k], Lower(s))

\* C1: region classification is total: every filename gets exactly one tag
\* of the nine RegionTags, and the tag is Unclassified when no rule matches.
C1_RegionTotal ==
    cpc = "done" =>
        /\ metadata.region \in RegionTags
        /\ (~HasGlobalExUs(filename) /\ ~HasApacExJapan(filename)
              /\ ~HasSP500(filename) /\ ~HasTableKeyword(filename))
           => metadata.region = "Unclassified"

\* a non-empty filename that no rule matches was classified
C1_Witness ==
    /\ cpc = "done"
    /\ Len(filename) > 1
    /\ ~HasTableKeyword(filename)
    /\ metadata.region = "Unclassified"

\* C2: a filename containing "global ex us" or "global ex-us" in any letter
\* case is Global Ex US whatever else it contains; one containing "apac ex
\* jpy" or "apac ex japan" and no Global-Ex-US phrase is APAC Ex Japan.
C2_CompoundFirst ==
    cpc = "done" =>
        /\ HasGlobalExUs(filename) => metadata.region = "Global Ex US"
        /\ (HasApacExJapan(filename) /\ ~HasGlobalExUs(filename))
           => metadata.region = "APAC Ex Japan"

\* a name with a compound phrase in capitals and a colliding keyword of
\* another region ("japan" or "s&p500") was classified by the compound rule
C2_Witness ==
    /\ cpc = "done"
    /\ HasGlobalExUs(filename)
    /\ ~ContainsAny(filename, GlobalExUsPhrases)
    /\ (WordSearch(<<"j","a","p","a","n">>, Lower(filename)) \/ HasSP500(filename))
    /\ metadata.region = "Global Ex US"

\* C3: the documented example filenames classify as documented.
C3_DocExamples ==
    \A i \in DOMAIN DocExamples :
        (cpc = "done" /\ filename = DocExamples[i].name)
        => metadata = [date |-> DocExamples[i].date, region |-> DocExamples[i].region]

\* the S&P500 example was classified
C3_Witness ==
    /\ cpc = "done"
    /\ filename = DocExamples[1].name
    /\ metadata = [date |-> Date(2025, 3, 11), region |-> "US"]

\* the "<Day> <Year>" tail of a Month-Day-Year group starting at position p
\* (right after the month name): <<day, year>>, <<>> when there is none
DayYearFrom(s, p, bEnd, c, eEnd) ==
    IF bEnd > p /\ c > 0 /\ AllDigits(s, eEnd, 4)
    THEN <<ToInt(SubSeq(s, bEnd, bEnd + c - 1)), ToInt(SubSeq(s, eEnd, eEnd + 3))>>
    ELSE <<>>

DayYearDay(s, p, bEnd, c) == DayYearFrom(s, p, bEnd, c, SpaceRunEnd(s, bEnd + c))

DayYearAt(s, p) == DayYearDay(s, p, SpaceRunEnd(s, p), DayLen(s, SpaceRunEnd(s, p)))

\* the valid calendar dates written in s as "<MonthName> <Day> <Year>"
MonthDayYearDates(s) ==
    {Date(DayYearAt(s, i + Len(MONTH_MAPPINGS[k].name))[2],
          MONTH_MAPPINGS[k].month,
          DayYearAt(s, i + Len(MONTH_MAPPINGS[k].name))[1]) :
        <<i, k>> \in {t \in (1..Len(s)) \X DOMAIN MONTH_MAPPINGS :
            /\ OccursAt(s, t[1], MONTH_MAPPINGS[t[2]].name)
            /\ DayYearAt(s, t[1] + Len(MONTH_MAPPINGS[t[2]].name)) # <<>>
            /\ ValidDate(DayYearAt(s, t[1] + Len(MONTH_MAPPINGS[t[2]].name))[2],
                         MONTH_MAPPINGS[t[2]].month,
                         DayYearAt(s, t[1] + Len(MONTH_MAPPINGS[t[2]].name))[1])}}

\* C4: a filename containing a valid "<MonthName> <Day> <Year>" group yields
\* exactly that date, whatever text surrounds the group.
C4_MonthDayYearAnywhere ==
    (cpc = "done" /\ MonthDayYearDates(filename) # {})
    => metadata.date \in MonthDayYearDates(filename)

\* C5: the three rules are tried in the order Month-Day-Year, YYYY-MM-DD,
\* YYYYMMDD; the result is the date of the first rule whose match is a valid
\* calendar date, an invalid match falls through to the next rule, and the
\* date is absent when no rule yields a valid date.
C5_RuleOrder ==
    cpc = "done" =>
        LET d == metadata.date
        IN  /\ Rule1(filename) # None => d = Rule1(filename)
            /\ (Rule1(filename) = None /\ Rule2(filename) # None) => d = Rule2(filename)
            /\ (Rule1(filename) = None /\ Rule2(filename) = None) => d = Rule3(filename)
            /\ d # None => ValidDate(d.y, d.m, d.d)

\* the first pattern matched a calendar-invalid date and the second
\* pattern's date was returned
C5_Witness ==
    /\ cpc = "done"
    /\ SearchPattern1(filename) # <<>>
    /\ InMonths(Lower(SearchPattern1(filename)[1]))
    /\ Rule1(filename) = None
    /\ Rule2(filename) # None
    /\ metadata.date = Rule2(filename)

(***************************************************************************)
(* The session state across syncs                                          *)
(***************************************************************************)
\* pd.concat of the collected tables, or no rows when there are none
Merged(frames) == IF frames = <<>> THEN EmptyDataFrame ELSE Concat(frames)

SyncedIds == [k \in DOMAIN synced_files |-> synced_files[k].id]

SyncEnded == pc = "idle" /\ message \in {"completed", "no_data"}

\* C6: whenever a sync that listed at least one file has completed,
\* stock_data is exactly the concatenation of the tables parsed during that
\* sync, and holds no rows at all when none of its files could be parsed.
C6_MergedIsLatestSync ==
    SyncEnded => stock_data = Merged(Tables(SyncedIds, last_sync))

\* C7: the step that completes a sync sets synced_files to one entry per
\* listed file, in listing order, and nothing else; synced_files changes
\* only by such a step or by being emptied as a whole.
C7_SyncedFilesReplaced ==
    [][ /\ (pc = "loop" /\ idx > Len(files))
            => synced_files' = EntriesOf(files, Now(clock))
        /\ synced_files' # synced_files
            => ((pc = "loop" /\ idx > Len(files)) \/ synced_files' = <<>>) ]_vars

\* a second sync has completed and every entry is of that sync
C7_Witness ==
    /\ SyncEnded
    /\ clock >= 2
    /\ Len(synced_files) >= 2
    /\ \A k \in DOMAIN synced_files : synced_files[k].synced_at = Now(clock)

\* the loop is at a file whose download or decoding fails
AtFailingFile ==
    pc = "loop" /\ idx <= Len(files) /\ FetchOrDecodeFails(files[idx])

\* the iteration of such a file adds no table and moves on to the next file
C8_SkipsOnlyThatFile ==
    AtFailingFile =>
        /\ pc' = "loop"
        /\ files' = files
        /\ idx' = idx + 1
        /\ all_stock_data' = all_stock_data
        /\ processed_files' = Append(processed_files, Entry(files[idx], Now(clock)))

\* inside the loop the files before idx have all been handled
C8_LoopInvariant ==
    pc = "loop" =>
        /\ processed_files = EntriesOf(SubSeq(files, 1, idx - 1), Now(clock))
        /\ all_stock_data = Tables(SubSeq(files, 1, idx - 1), Now(clock))

\* the end of the loop records every listed file and merges every table
C8_Completes ==
    (pc = "loop" /\ idx > Len(files)) =>
        /\ pc' = "idle"
        /\ synced_files' = EntriesOf(files, Now(clock))
        /\ last_sync' = Now(clock)
        /\ Tables(files, Now(clock)) # <<>>
            => stock_data' = Concat(Tables(files, Now(clock)))

\* C8: a file whose fetch or decoding fails is skipped alone: it adds no
\* rows, the loop goes on to the next file, the tables of the other files
\* are merged, and synced_files and last_sync are updated.
C8_FetchDecodeFailureSkips ==
    /\ []C8_LoopInvariant
    /\ [][C8_SkipsOnlyThatFile /\ C8_Completes]_vars

\* a completed sync whose listing had a failing file ahead of a file that
\* parsed, with the rows of the latter merged
C8_Witness ==
    /\ pc = "idle"
    /\ message = "completed"
    /\ \E k \in DOMAIN synced_files :
          /\ FetchOrDecodeFails(synced_files[k].id)
          /\ \E j \in DOMAIN synced_files : j > k /\ Parses(synced_files[j].id, last_sync)
    /\ stock_data = Concat(Tables(SyncedIds, last_sync))
    /\ ~IsEmpty(stock_data)

\* C9: whatever fails for one file, the loop goes on with the next file.
C9_LoopNeverAborts ==
    [][ (pc = "loop" /\ idx <= Len(files))
            => (pc' = "loop" /\ files' = files /\ idx' = idx + 1) ]_vars

(***************************************************************************)
(* The filters in any order                                                *)
(***************************************************************************)
\* the order the filters are listed in
ListedOrder == <<"region", "sector", "date", "decile", "search">>

\* what a chain ends in: an exception, or the labels of the rows left
Outcome(res) ==
    IF res.exc # "" THEN [raised |-> TRUE, rows |-> {}]
    ELSE [raised |-> FALSE, rows |-> Range(res.df.index)]

ChainEnded == fapplied = FilterNames \/ fcur.exc # ""

\* C10: a chain of the five filters ends, whatever order they were applied
\* in, with the rows that applying them in the listed order ends with.
C10_OrderIndependent ==
    ChainEnded => Outcome(fcur) = Outcome(Chain(fdf, fargs, ListedOrder))

(***************************************************************************)
(* One filter call                                                         *)
(***************************************************************************)
\* the step is a call of the filter called name
CallOf(name) == fcur.exc = "" /\ name \notin fapplied /\ fapplied' = fapplied \cup {name}

\* the columns the call of a filter reads
ColumnsRead(name, args) ==
    CASE name = "region" -> {RegionCol}
      [] name = "sector" -> {Sector}
      [] name = "date" -> {FileDate}
      [] name = "search" -> {Ticker, CompanyName}
      [] name = "decile" ->
            IF args.criteria \in {"Entering Top 2 Deciles", "Entering Bottom 2 Deciles"}
            THEN {CurrentDecile, PreviousDecile}
            ELSE IF args.criteria \in {"Moving +3 Deciles", "Moving +5 Deciles"}
            THEN {DecileChange}
            ELSE {}

\* df lacks a column the call needs; the search needs one of its two
Lacks(name, df, args) ==
    IF name = "search"
    THEN \A c \in ColumnsRead(name, args) : ~HasColumn(df, c)
    ELSE \E c \in ColumnsRead(name, args) : ~HasColumn(df, c)

\* C11: a filter called on a non-empty dataset that lacks a column it needs
\* does not raise, and (the search aside, which has nothing to match then)
\* returns the dataset unchanged.
C11_MissingColumnPassThrough ==
    [][ \A name \in FilterNames :
            (CallOf(name) /\ ~IsEmpty(fcur.df) /\ Lacks(name, fcur.df, fargs))
                => /\ fcur'.exc = ""
                   /\ name # "search" => fcur'.df = fcur.df ]_vars

\* the number in a decile cell of row r, when there is one
Present(df, r, name) == HasColumn(df, name) /\ Cell(df, r, name).t = "num"

\* row r meets the named criterion
Meets(df, r, criteria) ==
    CASE criteria = "All Decile Movements" -> TRUE
      [] criteria = "Entering Top 2 Deciles" ->
            /\ Present(df, r, CurrentDecile) /\ Present(df, r, PreviousDecile)
            /\ Cell(df, r, CurrentDecile).n <= 2 /\ Cell(df, r, PreviousDecile).n > 2
      [] criteria = "Entering Bottom 2 Deciles" ->
            /\ Present(df, r, CurrentDecile) /\ Present(df, r, PreviousDecile)
            /\ Cell(df, r, CurrentDecile).n >= 9 /\ Cell(df, r, PreviousDecile).n < 9
      [] criteria = "Moving +3 Deciles" ->
            Present(df, r, DecileChange) /\ Cell(df, r, DecileChange).n >= 3
      [] criteria = "Moving +5 Deciles" ->
            Present(df, r, DecileChange) /\ Cell(df, r, DecileChange).n >= 5

\* the index labels of the rows of df that meet the criterion, in order
LabelsMeeting(df, criteria) ==
    SelectSeq(df.index, LAMBDA l : \E r \in DOMAIN df.index :
                                      df.index[r] = l /\ Meets(df, r, criteria))

\* C12: called on a dataset that has the decile columns the criterion
\* reads, filter_by_decile_criteria returns exactly the rows that meet the
\* criterion, each as it was; a row with a needed decile value absent is
\* not among them.
C12_DecileCriteria ==
    [][ (CallOf("decile") /\ ~Lacks("decile", fcur.df, fargs))
            => /\ fcur'.exc = ""
               /\ fcur'.df.columns = fcur.df.columns
               /\ fcur'.df.index = LabelsMeeting(fcur.df, fargs.criteria)
               /\ \A k \in DOMAIN fcur'.df.index :
                     \E r \in DOMAIN fcur.df.index :
                        /\ fcur.df.index[r] = fcur'.df.index[k]
                        /\ fcur.df.data[r] = fcur'.df.data[k] ]_vars

\* "Entering Top 2 Deciles" was applied to the Japan rows: of the rows with
\* current decile 2, the one that came from decile 5 is kept and the one
\* that came from decile 1 is dropped, as is the row without a previous
\* decile
C12_Witness ==
    /\ fapplied = {"decile"}
    /\ fargs.criteria = "Entering Top 2 Deciles"
    /\ Len(fdf.index) = 4
    /\ \E r \in DOMAIN fdf.data :
          /\ Present(fdf, r, CurrentDecile) /\ Present(fdf, r, PreviousDecile)
          /\ Cell(fdf, r, CurrentDecile).n = 2 /\ Cell(fdf, r, PreviousDecile).n = 1
    /\ \E r \in DOMAIN fdf.data :
          Present(fdf, r, CurrentDecile) /\ ~Present(fdf, r, PreviousDecile)
    /\ fcur.exc = ""
    /\ Len(fcur.df.index) = 1
    /\ Cell(fcur.df, 1, CurrentDecile) = Num(2)
    /\ Cell(fcur.df, 1, PreviousDecile) = Num(5)

(***************************************************************************)
(* Enrichment                                                              *)
(***************************************************************************)
\* the positions of the source table's headers that stand for a canonical
\* field, under any synonym
SourcePos(df, label) ==
    {j \in DOMAIN df.columns : df.columns[j].str /\ RenamedLabel(df.columns[j]) = label}

Supplies(df, label) == SourcePos(df, label) # {}

\* no cell of the column standing for the field holds text
NoText(df, label) ==
    \A j \in SourcePos(df, label) : \A r \in DOMAIN df.data : df.data[r][j].t # "str"

\* every header of the table is a str
StrHeaders(df) == \A j \in DOMAIN df.columns : df.columns[j].str

\* the difference the spec asks for in one row of the enriched table
IsDifference(row_change, cur, prev) ==
    IF cur.t = "num" /\ prev.t = "num"
    THEN row_change.t = "num" /\ row_change.n = cur.n - prev.n
    ELSE row_change.t = "nan"

\* the enriched table has Decile Change = Current Decile - Previous Decile
\* in every row
Derived(out) ==
    /\ out.exc = ""
    /\ HasColumn(out.df, DecileChange)
    /\ \A r \in DOMAIN out.df.data :
         IsDifference(Cell(out.df, r, DecileChange), Cell(out.df, r, CurrentDecile),
                      Cell(out.df, r, PreviousDecile))

\* the enriched table has the change column with the cells the source gave
KeptAsSupplied(src, out) ==
    /\ out.exc = ""
    /\ HasColumn(out.df, DecileChange)
    /\ \A j \in SourcePos(src, DecileChange) : \A r \in DOMAIN src.data :
         Cell(out.df, r, DecileChange) = src.data[r][j]

\* C13: after process_file_data on a table with str headers: when the
\* source has both decile columns (numbers or missing cells) and no change
\* column, the call returns and every row has Decile Change = Current
\* Decile - Previous Decile; when the source supplies a change column under
\* any synonym, the call returns and the column holds the supplied cells;
\* when a decile column is missing and no change column is supplied, the
\* call returns and the table has no Decile Change column.
C13_DecileChange ==
    (epc = "processed" /\ StrHeaders(eargs.df)) =>
        IF Supplies(eargs.df, DecileChange)
        THEN KeptAsSupplied(eargs.df, eout)
        ELSE IF Supplies(eargs.df, CurrentDecile) /\ Supplies(eargs.df, PreviousDecile)
             THEN (NoText(eargs.df, CurrentDecile) /\ NoText(eargs.df, PreviousDecile))
                     => Derived(eout)
             ELSE eout.exc = "" /\ ~HasColumn(eout.df, DecileChange)

\* C13 witness: a sheet with Decile and Prior Decile and no change column
\* was enriched, and its row with 2 and 5 has Decile Change -3
C13_Witness ==
    /\ epc = "processed"
    /\ StrHeaders(eargs.df)
    /\ ~Supplies(eargs.df, DecileChange)
    /\ Supplies(eargs.df, CurrentDecile)
    /\ Supplies(eargs.df, PreviousDecile)
    /\ eout.exc = ""
    /\ HasColumn(eout.df, DecileChange)
    /\ \E r \in DOMAIN eout.df.data :
         /\ Cell(eout.df, r, CurrentDecile).n = 2
         /\ Cell(eout.df, r, PreviousDecile).n = 5
         /\ Cell(eout.df, r, DecileChange).n = 0 - 3

\* the field is there in the row: the table has the column and the row's
\* cell is not missing
HasField(df, r, name) == HasColumn(df, name) /\ Cell(df, r, name).t # "nan"

\* C14: in every session state every record of the merged dataset has a
\* Ticker, a Region that is one of the nine tags, and a File Date.
C14_NonOptionalFields ==
    \A r \in DOMAIN stock_data.data :
        /\ HasField(stock_data, r, Ticker)
        /\ HasField(stock_data, r, RegionCol)
        /\ \E tag \in RegionTags : Cell(stock_data, r, RegionCol) = Text(RegionText(tag))
        /\ HasField(stock_data, r, FileDate)
        /\ Cell(stock_data, r, FileDate).t = "dt"

\* the row's File Date was taken from datetime.now(): it has a time of day,
\* which a date parsed from a filename never has
StampedNow(df, r) ==
    HasColumn(df, FileDate) /\ Cell(df, r, FileDate).t = "dt" /\ Cell(df, r, FileDate).n % 100 # 0

\* C15: whenever the dashboard has been drawn with one of the five time
\* periods (the presets, or Custom with the bounds it is drawn with), every
\* row of the merged dataset that was stamped with "now" is in the
\* filtered data.
C15_UndatedRowsIncluded ==
    (pc = "idle" /\ fapplied = {"date"} /\ fcur.exc = "") =>
        \A r \in DOMAIN fdf.data :
            StampedNow(fdf, r) => \E q \in DOMAIN fcur.df.index : fcur.df.index[q] = fdf.index[r]

(***************************************************************************)
(* Free-text search                                                        *)
(***************************************************************************)
\* the row's field is a text that contains t, letter case ignored
FieldContains(df, r, name, t) ==
    /\ HasField(df, r, name)
    /\ Cell(df, r, name).t = "str"
    /\ Contains(Lower(Cell(df, r, name).s), Lower(t))

\* the labels of the rows whose Ticker or Company Name contains t
LabelsContaining(df, t) ==
    SelectSeq(df.index,
              LAMBDA l : \E r \in DOMAIN df.index :
                            /\ df.index[r] = l
                            /\ \/ FieldContains(df, r, Ticker, t)
                               \/ FieldContains(df, r, CompanyName, t))

\* every row of the dataset has a Ticker and a Company Name
NamedRows(df) ==
    \A r \in DOMAIN df.data : HasField(df, r, Ticker) /\ HasField(df, r, CompanyName)

\* C16: filter_by_search called on a dataset whose rows all have Ticker and
\* Company Name returns the dataset unchanged for the empty term, and for
\* any other term exactly the rows whose Ticker or Company Name contains
\* the term as a substring, letter case ignored.
C16_LiteralSubstring ==
    [][ (CallOf("search") /\ NamedRows(fcur.df)) =>
            IF fargs.search_term = <<>>
            THEN fcur' = fcur
            ELSE /\ fcur'.exc = ""
                 /\ fcur'.df.index = LabelsContaining(fcur.df, fargs.search_term) ]_vars

\* C17: after filter_by_search with a non-empty term no row of the result
\* has both Ticker and Company Name absent (the cell missing, or the column
\* not in the dataset).
C17_AbsentNeverMatches ==
    [][ (CallOf("search") /\ fargs.search_term # <<>> /\ fcur'.exc = "") =>
            \A r \in DOMAIN fcur'.df.data :
                HasField(fcur'.df, r, Ticker) \/ HasField(fcur'.df, r, CompanyName) ]_vars

(***************************************************************************)
(* Schema normalizer                                                       *)
(***************************************************************************)
\* every header of the table is one of the ten canonical names
CanonicalOnly(df) ==
    \A j \in DOMAIN df.columns :
        \E k \in DOMAIN CanonicalHeaders : df.columns[j] = CanonicalHeaders[k].label

\* C18: standardize_column_names applied to a table whose headers are all
\* canonical returns it with nothing renamed, and applied to its own result
\* it returns the column names that result had.
C18_Idempotent ==
    [][ /\ (epc = "start" /\ epc' = "once" /\ CanonicalOnly(etable)) =>
              (eout'.exc = "" /\ eout'.df = etable)
        /\ (epc = "once" /\ epc' = "twice") =>
              (eout'.exc = "" /\ eout'.df.columns = eout.df.columns) ]_vars

\* C18 witness: the normalizer has run twice on a table of which the first
\* run renamed a header
C18_Witness ==
    /\ epc = "twice"
    /\ eout.exc = ""
    /\ \E j \in DOMAIN eargs.df.columns : eargs.df.columns[j] # eout.df.columns[j]

\* the name the spec gives a raw header: the synonym table's entry for the
\* header lower-cased and stripped, or the header itself
Normalized(h) ==
    IF InMappings(Strip(Lower(h.v))) THEN Str(MappingOf(Strip(Lower(h.v)))) ELSE h

\* C19: standardize_column_names returns, for any table, a table with as
\* many columns in the same order, each named by the synonym table's entry
\* for its header lower-cased and stripped when there is one and by the
\* header itself otherwise, and with the same rows.
C19_NormalizedNames ==
    epc = "once" =>
        /\ eout.exc = ""
        /\ DOMAIN eout.df.columns = DOMAIN eargs.df.columns
        /\ \A j \in DOMAIN eargs.df.columns : eout.df.columns[j] = Normalized(eargs.df.columns[j])
        /\ eout.df.data = eargs.df.data

\* C20: after process_file_data(df, region, file_date) the table object the
\* caller passed in has the columns and values it had before the call.
C20_InputUnchanged ==
    epc = "processed" => etable = eargs.df

(***************************************************************************)
(* Region keywords and their spellings                                     *)
(***************************************************************************)
\* C21: a filename that spells a region phrase with other separators
\* between or around its words (two spaces, underscores, hyphens, dots) is
\* classified as the filename that spells it with single spaces.
C21_SeparatorTolerant ==
    \A v \in SpellingVariants :
        (cpc = "done" /\ filename = v.name) =>
            metadata.region = extract_region_from_filename(v.canonical)

(***************************************************************************)
(* Decile criteria                                                         *)
(***************************************************************************)
\* the row improved by at least k decile positions: decile 1 is the best,
\* so its Decile Change (current minus previous) is -k or less
ImprovedBy(df, r, k) == Present(df, r, DecileChange) /\ Cell(df, r, DecileChange).n <= 0 - k

\* the index labels of the rows of df that improved by at least k, in order
LabelsImproved(df, k) ==
    SelectSeq(df.index, LAMBDA l : \E r \in DOMAIN df.index :
                                      df.index[r] = l /\ ImprovedBy(df, r, k))

\* C22: on a dataset that has the Decile Change column, "Moving +3 Deciles"
\* returns exactly the rows that improved by at least 3 decile positions
\* and "Moving +5 Deciles" those that improved by at least 5.
C22_MovingIsImprovement ==
    [][ (CallOf("decile") /\ HasColumn(fcur.df, DecileChange) /\ fcur'.exc = "") =>
            /\ fargs.criteria = "Moving +3 Deciles"
                  => fcur'.df.index = LabelsImproved(fcur.df, 3)
            /\ fargs.criteria = "Moving +5 Deciles"
                  => fcur'.df.index = LabelsImproved(fcur.df, 5) ]_vars

\* C23: a filename made of a keyword of the region table followed by a date
\* and an extension is classified as the region the keyword is listed for.
C23_KeywordOwnRegion ==
    \A r \in DOMAIN REGION_MAPPINGS : \A k \in DOMAIN REGION_MAPPINGS[r].keywords :
        (cpc = "done" /\ filename = KeywordName(r, k)) =>
            metadata.region = REGION_MAPPINGS[r].region

(***************************************************************************)
(* Colliding headers                                                       *)
(***************************************************************************)
\* no two columns of the table have the same name
DistinctNames(df) ==
    \A i, j \in DOMAIN df.columns : i # j => df.columns[i] # df.columns[j]

\* C24: standardize_column_names applied to a table whose headers are
\* pairwise distinct returns a table no two columns of which have the same
\* name.
C24_NoCollision ==
    (epc = "once" /\ DistinctNames(eargs.df) /\ eout.exc = "") => DistinctNames(eout.df)

(***************************************************************************)
(* Session state                                                           *)
(***************************************************************************)
\* C25: in every session state last_sync is unset exactly when
\* synced_files is empty, and a merged dataset that is not empty comes with
\* a synced_files that is not empty and a last_sync that is set.
C25_SessionConsistent ==
    /\ (last_sync = None) <=> (synced_files = <<>>)
    /\ ~IsEmpty(stock_data) => (synced_files # <<>> /\ last_sync # None)

\* C25 witness: a sync that parsed nothing has ended on a session without
\* data: there are file entries and a timestamp, and no merged data
C25_Witness ==
    /\ SyncEnded
    /\ message = "no_data"
    /\ IsEmpty(stock_data)
    /\ synced_files # <<>>
    /\ last_sync = Now(clock)

\* a click on the sync button that lists no file, or a script run without
\* a Drive connection
NoSync ==
    pc = "idle" /\ pc' = "idle" /\ message' \in {"no_files", "not_connected"}
        /\ (clock' # clock \/ drive_connected' # drive_connected)

\* C26: a sync that lists no file, and a run while Drive is not connected,
\* leave synced_files, the merged dataset and last_sync as they were.
C26_NoFilesNoChange ==
    [][ NoSync => (synced_files' = synced_files /\ stock_data' = stock_data
                     /\ last_sync' = last_sync) ]_vars

\* C26 witness: a sync that listed nothing has run on a session holding
\* data, and the data, the entries and the timestamp of the earlier sync
\* are there
C26_Witness ==
    /\ pc = "idle"
    /\ message = "no_files"
    /\ ~IsEmpty(stock_data)
    /\ synced_files # <<>>
    /\ last_sync # None
    /\ last_sync # Now(clock)

\* a click on "Clear All Synced Data"
ClearStep == pc = "idle" /\ message # "cleared" /\ message' = "cleared"

\* C27: the clear operation leaves synced_files empty, the merged dataset
\* empty and last_sync unset, as in the initial state; and the merged
\* dataset changes only by a clear or by the step that completes a sync.
C27_ClearResets ==
    [][ /\ ClearStep => (synced_files' = <<>> /\ stock_data' = EmptyDataFrame
                           /\ last_sync' = None)
        /\ stock_data' # stock_data
              => (ClearStep \/ (pc = "loop" /\ idx > Len(files))) ]_vars

\* C27 witness: a session that held data was cleared
C27_Witness ==
    /\ message = "cleared"
    /\ clock >= 1
    /\ synced_files = <<>>
    /\ IsEmpty(stock_data)
    /\ last_sync = None

\* the index labels of the rows a criterion selects from df
Selected(df, criteria) == Range(filter_by_decile_criteria(df, criteria).df.index)

\* every row of out is a row of df, with its label and its cells
RowsAmong(out, df) ==
    /\ out.columns = df.columns
    /\ \A q \in DOMAIN out.index :
         \E r \in DOMAIN df.index : df.index[r] = out.index[q] /\ df.data[r] = out.data[q]

\* C28: on a dataset that has the three decile columns, the rows "Moving +5
\* Deciles" returns are among those "Moving +3 Deciles" selects, and no row
\* "Entering Top 2 Deciles" returns is selected by "Entering Bottom 2
\* Deciles"; and whatever a filter returns is made of rows of its input.
C28_CriteriaConsistent ==
    [][ /\ (CallOf("decile") /\ fcur'.exc = "" /\ HasColumn(fcur.df, CurrentDecile)
              /\ HasColumn(fcur.df, PreviousDecile) /\ HasColumn(fcur.df, DecileChange)) =>
              /\ fargs.criteria = "Moving +5 Deciles"
                    => Range(fcur'.df.index) \subseteq Selected(fcur.df, "Moving +3 Deciles")
              /\ fargs.criteria = "Entering Top 2 Deciles"
                    => Range(fcur'.df.index)
                          \cap Selected(fcur.df, "Entering Bottom 2 Deciles") = {}
        /\ \A name \in FilterNames :
              (CallOf(name) /\ fcur'.exc = "") => RowsAmong(fcur'.df, fcur.df) ]_vars

\* C28 witness: "Moving +5 Deciles" was applied to the four rows of a file
\* with derived changes and returned one of them
C28_Witness ==
    /\ fapplied = {"decile"}
    /\ fargs.criteria = "Moving +5 Deciles"
    /\ Len(fdf.index) = 4
    /\ HasColumn(fdf, CurrentDecile) /\ HasColumn(fdf, PreviousDecile)
    /\ fcur.exc = ""
    /\ Len(fcur.df.index) = 1
    /\ Cell(fcur.df, 1, DecileChange) = Num(5)

====
